---- MODULE Spec2Model ----
(***************************************************************************)
(* Floor-plan editor (BasedPlanning): the room editor component            *)
(* (src/app/page.tsx, RoomEditor) and the snap engine                      *)
(* (src/app/page.tsx lines 2090-2485, editor/Snap).                        *)
(*                                                                         *)
(* Numbers: the program computes in JavaScript numbers; the model computes *)
(* in exact integer arithmetic.  Lengths are centimetres.  Where the code  *)
(* halves a dimension (v / 2) the model draws that dimension from even     *)
(* values, so that the halving is exact.                                   *)
(***************************************************************************)
EXTENDS Integers, Sequences, FiniteSets, TLC

VARIABLES
    history,            \* HistoryState: [past, present, future]
    dragState,          \* ExtendedDragState, or NoDrag (null)
    currentSnapResult,  \* <<>> (null) or <<SnapResult>>
    nextId,             \* id generator of the state module
    toolMode,           \* ToolMode: "select" | "measure"
    measurePoints,      \* MeasurePoint[]: the points of the measure tool
    last,               \* bookkeeping: the last event handled and what it saw
    pc,                 \* pure-function checks: "idle" | "call" | "done"
    call,               \* pure-function checks: the arguments
    ret                 \* pure-function checks: the result

vars ==
    <<history, dragState, currentSnapResult, nextId, toolMode, measurePoints,
      last, pc, call, ret>>

toolVars == <<toolMode, measurePoints>>

(***************************************************************************)
(* Helpers                                                                 *)
(***************************************************************************)
Abs(v) == IF v < 0 THEN 0 - v ELSE v

Max(a, b) == IF a >= b THEN a ELSE b

Min(a, b) == IF a <= b THEN a ELSE b

Half(v) == v \div 2

\* An optional value (undefined | v) is the empty or the one-element sequence.
Undefined == <<>>

Some(v) == <<v>>

(***************************************************************************)
(* Snap engine: room to room                                               *)
(***************************************************************************)
SNAP_TOLERANCE_CM == 2

WALL_SNAP_TOLERANCE_CM == 15

Sides == {"north", "south", "east", "west"}

\* room.wallThickness is a function on the subset of the sides that are set.
NoWallThickness == [s \in {} |-> 0]

wallSide(room, side, globalWallThicknessCm) ==
    IF side \in DOMAIN room.wallThickness
    THEN room.wallThickness[side]
    ELSE globalWallThicknessCm

getWallThicknessCm(room, globalWallThicknessCm) ==
    [north |-> wallSide(room, "north", globalWallThicknessCm),
     south |-> wallSide(room, "south", globalWallThicknessCm),
     east  |-> wallSide(room, "east", globalWallThicknessCm),
     west  |-> wallSide(room, "west", globalWallThicknessCm)]

innerBoundsCm(room, xCm, yCm) ==
    [left   |-> xCm,
     right  |-> xCm + room.widthCm,
     top    |-> yCm,
     bottom |-> yCm + room.heightCm]

outerBoundsCm(room, globalWallThicknessCm, xCm, yCm) ==
    LET w == getWallThicknessCm(room, globalWallThicknessCm)
    IN  [left   |-> xCm - w.west,
         right  |-> xCm + room.widthCm + w.east,
         top    |-> yCm - w.north,
         bottom |-> yCm + room.heightCm + w.south,
         w      |-> w]

\* The locals of calculateSnap before the loop.  xRule, yRule and xOther,
\* yOther are bookkeeping: the branch that assigned the axis and the id of the
\* neighbour it used.
snapStart(targetXCm, targetYCm) ==
    [xCm |-> targetXCm, yCm |-> targetYCm,
     snappedX |-> FALSE, snappedY |-> FALSE,
     xGuideCm |-> Undefined, yGuideCm |-> Undefined,
     xRule |-> "none", yRule |-> "none",
     xOther |-> "", yOther |-> ""]

\* A wrong assignment: the guide of the X axis is not set.
setXNoGuide(acc, cm, guide, rule, other) ==
    [acc EXCEPT !.xCm = cm, !.snappedX = TRUE, !.xRule = rule, !.xOther = other.id]

setX(acc, cm, guide, rule, other) ==
    [acc EXCEPT !.xCm = cm, !.snappedX = TRUE, !.xGuideCm = Some(guide),
                !.xRule = rule, !.xOther = other.id]

setY(acc, cm, guide, rule, other) ==
    [acc EXCEPT !.yCm = cm, !.snappedY = TRUE, !.yGuideCm = Some(guide),
                !.yRule = rule, !.yOther = other.id]

\* A wrong SNAP X block: the wall-overlap targets leave out the moving room's
\* own wall, so the inner edges meet and the walls stack.
snapXInnerToInner(movingRoom, movingOuter, other, otherInner, otherOuter, acc) ==
    LET movingWalls == movingOuter.w IN
    IF acc.snappedX THEN acc
    ELSE IF Abs(movingOuter.right - otherInner.left) <= WALL_SNAP_TOLERANCE_CM
    THEN setX(acc, otherInner.left - movingRoom.widthCm,
              otherInner.left, "outerRightToInnerLeft", other)
    ELSE IF Abs(movingOuter.left - otherInner.right) <= WALL_SNAP_TOLERANCE_CM
    THEN setX(acc, otherInner.right,
              otherInner.right, "outerLeftToInnerRight", other)
    ELSE IF Abs(movingOuter.left - otherOuter.left) <= SNAP_TOLERANCE_CM
    THEN setX(acc, otherOuter.left + movingWalls.west,
              otherOuter.left, "alignLeft", other)
    ELSE IF Abs(movingOuter.right - otherOuter.right) <= SNAP_TOLERANCE_CM
    THEN setX(acc, otherOuter.right - movingRoom.widthCm - movingWalls.east,
              otherOuter.right, "alignRight", other)
    ELSE acc

\* A wrong SNAP X block: the test of snappedX is left out, so a later room
\* that matches takes the axis over.
snapXLastWins(movingRoom, movingOuter, other, otherInner, otherOuter, acc) ==
    LET movingWalls == movingOuter.w IN
    IF Abs(movingOuter.right - otherInner.left) <= WALL_SNAP_TOLERANCE_CM
    THEN setX(acc, otherInner.left - movingRoom.widthCm - movingWalls.east,
              otherInner.left, "outerRightToInnerLeft", other)
    ELSE IF Abs(movingOuter.left - otherInner.right) <= WALL_SNAP_TOLERANCE_CM
    THEN setX(acc, otherInner.right + movingWalls.west,
              otherInner.right, "outerLeftToInnerRight", other)
    ELSE IF Abs(movingOuter.left - otherOuter.left) <= SNAP_TOLERANCE_CM
    THEN setX(acc, otherOuter.left + movingWalls.west,
              otherOuter.left, "alignLeft", other)
    ELSE IF Abs(movingOuter.right - otherOuter.right) <= SNAP_TOLERANCE_CM
    THEN setX(acc, otherOuter.right - movingRoom.widthCm - movingWalls.east,
              otherOuter.right, "alignRight", other)
    ELSE acc

\* A wrong SNAP X block: the alignment rules are tested before the
\* wall-overlap rules.
snapXAlignFirst(movingRoom, movingOuter, other, otherInner, otherOuter, acc) ==
    LET movingWalls == movingOuter.w IN
    IF acc.snappedX THEN acc
    ELSE IF Abs(movingOuter.left - otherOuter.left) <= SNAP_TOLERANCE_CM
    THEN setX(acc, otherOuter.left + movingWalls.west,
              otherOuter.left, "alignLeft", other)
    ELSE IF Abs(movingOuter.right - otherOuter.right) <= SNAP_TOLERANCE_CM
    THEN setX(acc, otherOuter.right - movingRoom.widthCm - movingWalls.east,
              otherOuter.right, "alignRight", other)
    ELSE IF Abs(movingOuter.right - otherInner.left) <= WALL_SNAP_TOLERANCE_CM
    THEN setX(acc, otherInner.left - movingRoom.widthCm - movingWalls.east,
              otherInner.left, "outerRightToInnerLeft", other)
    ELSE IF Abs(movingOuter.left - otherInner.right) <= WALL_SNAP_TOLERANCE_CM
    THEN setX(acc, otherInner.right + movingWalls.west,
              otherInner.right, "outerLeftToInnerRight", other)
    ELSE acc

\* The SNAP X block of one loop iteration.
snapX(movingRoom, movingOuter, other, otherInner, otherOuter, acc) ==
    LET movingWalls == movingOuter.w IN
    IF acc.snappedX THEN acc
    ELSE IF Abs(movingOuter.right - otherInner.left) <= WALL_SNAP_TOLERANCE_CM
    THEN setX(acc, otherInner.left - movingRoom.widthCm - movingWalls.east,
              otherInner.left, "outerRightToInnerLeft", other)
    ELSE IF Abs(movingOuter.left - otherInner.right) <= WALL_SNAP_TOLERANCE_CM
    THEN setX(acc, otherInner.right + movingWalls.west,
              otherInner.right, "outerLeftToInnerRight", other)
    ELSE IF Abs(movingOuter.left - otherOuter.left) <= SNAP_TOLERANCE_CM
    THEN setX(acc, otherOuter.left + movingWalls.west,
              otherOuter.left, "alignLeft", other)
    ELSE IF Abs(movingOuter.right - otherOuter.right) <= SNAP_TOLERANCE_CM
    THEN setX(acc, otherOuter.right - movingRoom.widthCm - movingWalls.east,
              otherOuter.right, "alignRight", other)
    ELSE acc

\* The SNAP Y block of one loop iteration.
snapY(movingRoom, movingOuter, other, otherInner, otherOuter, acc) ==
    LET movingWalls == movingOuter.w IN
    IF acc.snappedY THEN acc
    ELSE IF Abs(movingOuter.bottom - otherInner.top) <= WALL_SNAP_TOLERANCE_CM
    THEN setY(acc, otherInner.top - movingRoom.heightCm - movingWalls.south,
              otherInner.top, "outerBottomToInnerTop", other)
    ELSE IF Abs(movingOuter.top - otherInner.bottom) <= WALL_SNAP_TOLERANCE_CM
    THEN setY(acc, otherInner.bottom + movingWalls.north,
              otherInner.bottom, "outerTopToInnerBottom", other)
    ELSE IF Abs(movingOuter.top - otherOuter.top) <= SNAP_TOLERANCE_CM
    THEN setY(acc, otherOuter.top + movingWalls.north,
              otherOuter.top, "alignTop", other)
    ELSE IF Abs(movingOuter.bottom - otherOuter.bottom) <= SNAP_TOLERANCE_CM
    THEN setY(acc, otherOuter.bottom - movingRoom.heightCm - movingWalls.south,
              otherOuter.bottom, "alignBottom", other)
    ELSE acc

\* A wrong loop exit: leaves the loop as soon as either axis has snapped.
snapBreakEither(acc) == acc.snappedX \/ acc.snappedY

\* if (snappedX && snappedY) break;
snapBreak(acc) == acc.snappedX /\ acc.snappedY

RECURSIVE snapLoop(_, _, _, _, _, _)
snapLoop(movingRoom, movingOuter, others, i, globalWallThicknessCm, acc) ==
    IF i > Len(others) THEN acc
    ELSE
      LET other == others[i]
          otherInner == innerBoundsCm(other, other.xCm, other.yCm)
          otherOuter == outerBoundsCm(other, globalWallThicknessCm,
                                      other.xCm, other.yCm)
          accX == snapX(movingRoom, movingOuter, other, otherInner, otherOuter, acc)
          accY == snapY(movingRoom, movingOuter, other, otherInner, otherOuter, accX)
      IN  IF snapBreak(accY) THEN accY
          ELSE snapLoop(movingRoom, movingOuter, others, i + 1,
                        globalWallThicknessCm, accY)

calculateSnap(movingRoom, allRooms, targetXCm, targetYCm, globalWallThicknessCm) ==
    LET others == SelectSeq(allRooms, LAMBDA r : r.id # movingRoom.id)
        movingOuter == outerBoundsCm(movingRoom, globalWallThicknessCm,
                                     targetXCm, targetYCm)
    IN  snapLoop(movingRoom, movingOuter, others, 1, globalWallThicknessCm,
                 snapStart(targetXCm, targetYCm))

(***************************************************************************)
(* Snap engine: placed object to room walls and to other objects           *)
(***************************************************************************)
OBJECT_SNAP_TOLERANCE_CM == 25

OBJECT_TO_OBJECT_SNAP_TOLERANCE_CM == 15

\* The locals of one axis of calculatePlacedObjectSnap: the snapped
\* coordinate, the flag, the guide and the best distance so far.
objAxisStart(targetCm, toleranceCm) ==
    [cm |-> targetCm, snapped |-> FALSE, guide |-> Undefined,
     best |-> toleranceCm + 1]

\* A wrong candidate test: the comparison with the best distance is left
\* out, so the last candidate within tolerance wins.
trySnapLastWins(a, dist, tolerance, cm, guide) ==
    IF dist <= tolerance
    THEN [cm |-> cm, snapped |-> TRUE, guide |-> Some(guide), best |-> dist]
    ELSE a

\* A wrong candidate test: the tolerance is not looked at.
trySnapNoTolerance(a, dist, tolerance, cm, guide) ==
    IF dist < a.best
    THEN [cm |-> cm, snapped |-> TRUE, guide |-> Some(guide), best |-> dist]
    ELSE a

\* if (dist <= tolerance && dist < bestSnapDist) { ... }
trySnap(a, dist, tolerance, cm, guide) ==
    IF dist <= tolerance /\ dist < a.best
    THEN [cm |-> cm, snapped |-> TRUE, guide |-> Some(guide), best |-> dist]
    ELSE a

\* SNAP TO ROOM WALLS, X axis: left edge to room left, right edge to room right.
objWallsX(a, objWidthCm, room, targetXCm, toleranceCm) ==
    LET leftEdge  == room.xCm
        rightEdge == room.xCm + room.widthCm
        objLeft   == targetXCm
        objRight  == targetXCm + objWidthCm
        a1 == trySnap(a, Abs(objLeft - leftEdge), toleranceCm, leftEdge, leftEdge)
    IN  trySnap(a1, Abs(objRight - rightEdge), toleranceCm,
                rightEdge - objWidthCm, rightEdge)

\* SNAP TO ROOM WALLS, Y axis: top edge to room top, bottom edge to room bottom.
objWallsY(a, objHeightCm, room, targetYCm, toleranceCm) ==
    LET topEdge    == room.yCm
        bottomEdge == room.yCm + room.heightCm
        objTop     == targetYCm
        objBottom  == targetYCm + objHeightCm
        a1 == trySnap(a, Abs(objTop - topEdge), toleranceCm, topEdge, topEdge)
    IN  trySnap(a1, Abs(objBottom - bottomEdge), toleranceCm,
                bottomEdge - objHeightCm, bottomEdge)

\* One other object, X axis: the four candidates in the order of the code.
objOtherX(a, objWidthCm, other, targetXCm) ==
    LET tol == OBJECT_TO_OBJECT_SNAP_TOLERANCE_CM
        otherLeft  == other.xCm
        otherRight == other.xCm + other.widthCm
        objLeft    == targetXCm
        objRight   == targetXCm + objWidthCm
        a1 == trySnap(a,  Abs(objLeft - otherRight), tol, otherRight, otherRight)
        a2 == trySnap(a1, Abs(objRight - otherLeft), tol,
                      otherLeft - objWidthCm, otherLeft)
        a3 == trySnap(a2, Abs(objLeft - otherLeft), tol, otherLeft, otherLeft)
    IN  trySnap(a3, Abs(objRight - otherRight), tol,
                otherRight - objWidthCm, otherRight)

\* One other object, Y axis.
objOtherY(a, objHeightCm, other, targetYCm) ==
    LET tol == OBJECT_TO_OBJECT_SNAP_TOLERANCE_CM
        otherTop    == other.yCm
        otherBottom == other.yCm + other.heightCm
        objTop      == targetYCm
        objBottom   == targetYCm + objHeightCm
        a1 == trySnap(a,  Abs(objTop - otherBottom), tol, otherBottom, otherBottom)
        a2 == trySnap(a1, Abs(objBottom - otherTop), tol,
                      otherTop - objHeightCm, otherTop)
        a3 == trySnap(a2, Abs(objTop - otherTop), tol, otherTop, otherTop)
    IN  trySnap(a3, Abs(objBottom - otherBottom), tol,
                otherBottom - objHeightCm, otherBottom)

\* for (const other of otherObjects): ax, ay are the two axes' locals.
\* currentObjectId is Undefined or Some(id).
RECURSIVE objLoop(_, _, _, _, _, _, _, _, _)
objLoop(objWidthCm, objHeightCm, targetXCm, targetYCm, otherObjects, currentObjectId, i, ax, ay) ==
    IF i > Len(otherObjects) THEN [x |-> ax, y |-> ay]
    ELSE
      LET other == otherObjects[i] IN
      IF currentObjectId # Undefined /\ other.id = currentObjectId[1]
      THEN objLoop(objWidthCm, objHeightCm, targetXCm, targetYCm, otherObjects,
                   currentObjectId, i + 1, ax, ay)
      ELSE objLoop(objWidthCm, objHeightCm, targetXCm, targetYCm, otherObjects,
                   currentObjectId, i + 1,
                   objOtherX(ax, objWidthCm, other, targetXCm),
                   objOtherY(ay, objHeightCm, other, targetYCm))

calculatePlacedObjectSnap(objWidthCm, objHeightCm, room, targetXCm, targetYCm, toleranceCm, otherObjects, currentObjectId) ==
    LET ax0 == objWallsX(objAxisStart(targetXCm, toleranceCm), objWidthCm, room,
                         targetXCm, toleranceCm)
        ay0 == objWallsY(objAxisStart(targetYCm, toleranceCm), objHeightCm, room,
                         targetYCm, toleranceCm)
        r == objLoop(objWidthCm, objHeightCm, targetXCm, targetYCm, otherObjects,
                     currentObjectId, 1, ax0, ay0)
    IN  [xCm |-> r.x.cm, yCm |-> r.y.cm,
         snappedX |-> r.x.snapped, snappedY |-> r.y.snapped,
         xGuideCm |-> r.x.guide, yGuideCm |-> r.y.guide]

(***************************************************************************)
(* Rotation-aware bounds of a placed object (helpers of the placed-object  *)
(* drag in handleSvgPointerMove)                                           *)
(***************************************************************************)
isRotated(rotationDeg) == rotationDeg % 180 # 0

\* A wrong inverse: the visual size is not swapped back.
visualToStorageNoSwap(visualX, visualY, origW, origH, rotationDeg) ==
    IF ~isRotated(rotationDeg) THEN [xCm |-> visualX, yCm |-> visualY]
    ELSE
      LET newW == origW
          newH == origH
          centerX == visualX + Half(newW)
          centerY == visualY + Half(newH)
      IN  [xCm |-> centerX - Half(origH), yCm |-> centerY - Half(origW)]

getVisualBounds(objXCm, objYCm, origW, origH, rotationDeg) ==
    IF ~isRotated(rotationDeg)
    THEN [x |-> objXCm, y |-> objYCm, w |-> origW, h |-> origH]
    ELSE
      LET centerX == objXCm + Half(origW)
          centerY == objYCm + Half(origH)
          newW == origH
          newH == origW
      IN  [x |-> centerX - Half(newW), y |-> centerY - Half(newH),
           w |-> newW, h |-> newH]

visualToStorage(visualX, visualY, origW, origH, rotationDeg) ==
    IF ~isRotated(rotationDeg) THEN [xCm |-> visualX, yCm |-> visualY]
    ELSE
      LET newW == origH
          newH == origW
          centerX == visualX + Half(newW)
          centerY == visualY + Half(newH)
      IN  [xCm |-> centerX - Half(origW), yCm |-> centerY - Half(origH)]

(***************************************************************************)
(* The document and its history (model/state; the module is not part of    *)
(* the sources at hand, its operations follow the specification)           *)
(***************************************************************************)
emptyAppState ==
    [rooms |-> <<>>, wallOpenings |-> <<>>, objectDefs |-> <<>>,
     placedObjects |-> <<>>, selectedRoomIds |-> <<>>,
     selectedObjectId |-> Undefined, globalWallThicknessCm |-> 10,
     panX |-> 0, panY |-> 0, zoom |-> 100]

createInitialHistory == [past |-> <<>>, present |-> emptyAppState, future |-> <<>>]

\* Bookkeeping of the last event handled: its name, the number of pointer
\* sessions started so far, the drag descriptor a pointer-up found, for a
\* deletion the room ids asked for and the number of openings and placed
\* objects that referred to them, for a pointer-down the event, and the
\* number of keys pressed so far.
NoEvent ==
    [clientX |-> 0, clientY |-> 0, shiftKey |-> FALSE,
     resizeHandle |-> Undefined, resizeRoomId |-> Undefined,
     placedId |-> Undefined, roomId |-> Undefined]

\* futureBefore is the length of the redo stack the event found, pointsBefore
\* the number of measure points a pointer-down found.
NoLast ==
    [ev |-> "none", sessions |-> 0, released |-> Undefined, deleted |-> {},
     refsBefore |-> 0, e |-> NoEvent, keys |-> 0, futureBefore |-> 0,
     pointsBefore |-> 0]

Event(name) ==
    [NoLast EXCEPT !.ev = name, !.sessions = last.sessions, !.keys = last.keys]

(***************************************************************************)
(* model/state: lookups and mutators.  Every mutator returns a new         *)
(* AppState; a lookup that fails returns Undefined and a mutator whose id  *)
(* is unknown returns the state unchanged.                                 *)
(***************************************************************************)
SeqToSet(sq) == {sq[i] : i \in 1..Len(sq)}

MapSeq(sq, f(_)) == [i \in 1..Len(sq) |-> f(sq[i])]

\* Array.prototype.find
FindSeq(sq, test(_)) ==
    LET hits == {i \in 1..Len(sq) : test(sq[i])}
    IN  IF hits = {} THEN Undefined
        ELSE Some(sq[CHOOSE i \in hits : \A j \in hits : i <= j])

getRoomById(state, roomId) == FindSeq(state.rooms, LAMBDA r : r.id = roomId)

recordHistoryKeepsFuture(h, newState) ==
    [past |-> Append(h.past, h.present), present |-> newState, future |-> h.future]

recordHistory(h, newState) ==
    [past |-> Append(h.past, h.present), present |-> newState, future |-> <<>>]

undo(h) ==
    IF h.past = <<>> THEN h
    ELSE [past    |-> SubSeq(h.past, 1, Len(h.past) - 1),
          present |-> h.past[Len(h.past)],
          future  |-> <<h.present>> \o h.future]

redo(h) ==
    IF h.future = <<>> THEN h
    ELSE [past    |-> Append(h.past, h.present),
          present |-> Head(h.future),
          future  |-> Tail(h.future)]

selectRoom(state, roomId) ==
    [state EXCEPT !.selectedRoomIds = <<roomId>>, !.selectedObjectId = Undefined]

toggleRoomSelection(state, roomId) ==
    [state EXCEPT
       !.selectedRoomIds =
           IF roomId \in SeqToSet(@)
           THEN SelectSeq(@, LAMBDA id : id # roomId)
           ELSE Append(@, roomId),
       !.selectedObjectId = Undefined]

selectAllRooms(state) ==
    [state EXCEPT !.selectedRoomIds = MapSeq(state.rooms, LAMBDA r : r.id),
                  !.selectedObjectId = Undefined]

clearSelection(state) ==
    [state EXCEPT !.selectedRoomIds = <<>>, !.selectedObjectId = Undefined]

selectObject(state, placedId) ==
    [state EXCEPT !.selectedRoomIds = <<>>, !.selectedObjectId = Some(placedId)]

updateViewport(state, panX, panY, zoom) ==
    [state EXCEPT !.panX = panX, !.panY = panY, !.zoom = zoom]

\* moves is a sequence of [id, xCm, yCm]; rooms not named keep their place.
moveRooms(state, moves) ==
    [state EXCEPT !.rooms =
        MapSeq(@, LAMBDA r :
            LET m == FindSeq(moves, LAMBDA mv : mv.id = r.id)
            IN  IF m = Undefined THEN r
                ELSE [r EXCEPT !.xCm = Max(0, m[1].xCm), !.yCm = Max(0, m[1].yCm)])]

resizeRoom(state, roomId, xCm, yCm, widthCm, heightCm) ==
    [state EXCEPT !.rooms =
        MapSeq(@, LAMBDA r :
            IF r.id # roomId THEN r
            ELSE [r EXCEPT !.xCm = Max(0, xCm), !.yCm = Max(0, yCm),
                           !.widthCm = Max(10, widthCm),
                           !.heightCm = Max(10, heightCm)])]

updatePlacedObjectPosition(state, placedId, xCm, yCm) ==
    [state EXCEPT !.placedObjects =
        MapSeq(@, LAMBDA p :
            IF p.id # placedId THEN p
            ELSE [p EXCEPT !.xCm = Max(0, xCm), !.yCm = Max(0, yCm)])]

\* Deleting rooms cascades to their wall openings and placed objects and
\* takes the rooms (and a deleted selected object) out of the selection.
deleteRooms(state, roomIds) ==
    LET gone == SeqToSet(roomIds)
        placedLeft == SelectSeq(state.placedObjects, LAMBDA p : p.roomId \notin gone)
    IN  [state EXCEPT
           !.rooms = SelectSeq(@, LAMBDA r : r.id \notin gone),
           !.wallOpenings = SelectSeq(@, LAMBDA o : o.roomId \notin gone),
           !.placedObjects = placedLeft,
           !.selectedRoomIds = SelectSeq(@, LAMBDA id : id \notin gone),
           !.selectedObjectId =
               IF @ # Undefined /\ \E p \in SeqToSet(placedLeft) : p.id = @[1]
               THEN @ ELSE Undefined]

deleteRoom(state, roomId) == deleteRooms(state, <<roomId>>)

deleteSelectedObject(state) ==
    IF state.selectedObjectId = Undefined THEN state
    ELSE [state EXCEPT
            !.placedObjects = SelectSeq(@, LAMBDA p : p.id # state.selectedObjectId[1]),
            !.selectedObjectId = Undefined]

(***************************************************************************)
(* editor/Interaction: coordinate helpers and drag descriptors             *)
(***************************************************************************)
SCALE == 5

\* Pointer samples are multiples of SCALE pixels, so the division is exact.
svgPixelsToCm(x, y) == [xCm |-> x \div SCALE, yCm |-> y \div SCALE]

\* Client pixels to content space: undo translate(pan) scale(zoom); zoom is
\* kept in percent.
getSvgCoordinates(e, panX, panY, zoom) ==
    [x |-> ((e.clientX - panX) * 100) \div zoom,
     y |-> ((e.clientY - panY) * 100) \div zoom]

\* The captured start position plus the pointer displacement in cm.
calculateDragPosition(ds, x, y) ==
    [xCm |-> ds.roomStartX + (x - ds.startX) \div SCALE,
     yCm |-> ds.roomStartY + (y - ds.startY) \div SCALE]

constrainRoomPosition(xCm, yCm) == [xCm |-> Max(0, xCm), yCm |-> Max(0, yCm)]

\* A drag descriptor with every optional field unset.
baseDrag(roomId, startX, startY, roomStartX, roomStartY) ==
    [roomId |-> roomId, startX |-> startX, startY |-> startY,
     roomStartX |-> roomStartX, roomStartY |-> roomStartY,
     targetType |-> "", resizeHandle |-> "", initialRoom |-> Undefined,
     multiDragRooms |-> <<>>]

startPlacedDrag(placed, x, y) == baseDrag(placed.id, x, y, placed.xCm, placed.yCm)

(***************************************************************************)
(* RoomEditor: history helpers                                             *)
(***************************************************************************)
\* A wrong updateState: the present is replaced and nothing is recorded.
updateStateNeverRecords(prev, newState, recordInHistory) ==
    [prev EXCEPT !.present = newState]

\* A wrong updateState: a recorded change keeps the redo stack.
updateStateKeepsFuture(prev, newState, recordInHistory) ==
    IF recordInHistory
    THEN [recordHistory(prev, newState) EXCEPT !.future = prev.future]
    ELSE [prev EXCEPT !.present = newState]

updateState(prev, newState, recordInHistory) ==
    IF recordInHistory THEN recordHistory(prev, newState)
    ELSE [prev EXCEPT !.present = newState]

\* A wrong undo handler: the present is pushed on the redo stack before the
\* undo looks at the past.
handleUndoPushesFirst(prev) ==
    IF prev.past = <<>> THEN [prev EXCEPT !.future = <<prev.present>> \o @]
    ELSE undo(prev)

handleUndo(prev) == undo(prev)

handleRedo(prev) == redo(prev)

\* handleSelectRoom(roomId, addToSelection); roomId is Undefined for null.
handleSelectRoom(prev, appState, roomId, addToSelection) ==
    IF roomId = Undefined THEN updateState(prev, clearSelection(appState), FALSE)
    ELSE IF addToSelection
    THEN updateState(prev, toggleRoomSelection(appState, roomId[1]), FALSE)
    ELSE updateState(prev, selectRoom(appState, roomId[1]), FALSE)

(***************************************************************************)
(* RoomEditor: button, form and keyboard handlers                          *)
(***************************************************************************)
\* The ids the state module hands out, in the order it hands them out.
newIdName(n) ==
    CASE n = 1 -> "n1" [] n = 2 -> "n2" [] n = 3 -> "n3" [] n = 4 -> "n4"
      [] OTHER -> "n5"

addWallOpening(state, id, roomId, wall, type, positionCm, widthCm) ==
    [state EXCEPT !.wallOpenings =
        Append(@, [id |-> id, roomId |-> roomId, wall |-> wall,
                   positionCm |-> positionCm, widthCm |-> widthCm, type |-> type])]

placeObject(state, id, defId, roomId, xCm, yCm) ==
    [state EXCEPT !.placedObjects =
        Append(@, [id |-> id, defId |-> defId, roomId |-> roomId,
                   xCm |-> xCm, yCm |-> yCm, rotationDeg |-> 0])]

\* const selectedRoom = selectedRoomIds.length === 1 ? getRoomById(...) : undefined
selectedRoomOf(appState) ==
    IF Len(appState.selectedRoomIds) = 1
    THEN getRoomById(appState, appState.selectedRoomIds[1])
    ELSE Undefined

\* A wrong delete handler: the room is filtered out and nothing else.
handleDeleteRoomNoCascade(prev, appState, roomId) ==
    updateState(prev,
        [appState EXCEPT !.rooms = SelectSeq(@, LAMBDA r : r.id # roomId)], TRUE)

handleDeleteRoom(prev, appState, roomId) ==
    updateState(prev, deleteRoom(appState, roomId), TRUE)

handleDeleteSelected(prev, appState) ==
    IF appState.selectedObjectId # Undefined
    THEN updateState(prev, deleteSelectedObject(appState), TRUE)
    ELSE IF Len(appState.selectedRoomIds) > 0
    THEN updateState(prev, deleteRooms(appState, appState.selectedRoomIds), TRUE)
    ELSE prev

\* A wrong Delete handler: the selected rooms go before the selected object.
handleKeyDownDeleteRoomsFirst(prev, appState) ==
    IF Len(appState.selectedRoomIds) > 0
    THEN updateState(prev, deleteRooms(appState, appState.selectedRoomIds), TRUE)
    ELSE IF appState.selectedObjectId # Undefined
    THEN updateState(prev, deleteSelectedObject(appState), TRUE)
    ELSE prev

\* handleKeyDown, key Delete or Backspace outside a text input.
handleKeyDownDelete(prev, appState) ==
    IF appState.selectedObjectId # Undefined
    THEN updateState(prev, deleteSelectedObject(appState), TRUE)
    ELSE IF Len(appState.selectedRoomIds) > 0
    THEN updateState(prev, deleteRooms(appState, appState.selectedRoomIds), TRUE)
    ELSE prev

\* handleKeyDown, Ctrl/Cmd+A.
handleKeyDownSelectAll(prev, appState) ==
    updateState(prev, selectAllRooms(appState), FALSE)

\* handleKeyDown, Escape in select mode.
handleKeyDownEscape(prev, appState) ==
    updateState(prev, clearSelection(appState), FALSE)

handleAddDoor(prev, appState, id, roomId, wall, positionCm, widthCm) ==
    updateState(prev,
        addWallOpening(appState, id, roomId, wall, "door", positionCm, widthCm), TRUE)

\* Places the object at the centre of the first selected room.
handlePlaceObjectDef(prev, appState, id, defId) ==
    LET def == FindSeq(appState.objectDefs, LAMBDA d : d.id = defId)
        room == IF Len(appState.selectedRoomIds) > 0
                THEN getRoomById(appState, appState.selectedRoomIds[1])
                ELSE Undefined
    IN  IF def = Undefined \/ room = Undefined THEN prev
        ELSE updateState(prev,
                 placeObject(appState, id, defId, room[1].id,
                     room[1].xCm + Half(room[1].widthCm - def[1].widthCm),
                     room[1].yCm + Half(room[1].heightCm - def[1].heightCm)),
                 TRUE)

(***************************************************************************)
(* RoomEditor: pointer handlers.  A pointer event e carries clientX,       *)
(* clientY, shiftKey and the attributes found by closest() on its target:  *)
(* resizeHandle, resizeRoomId, placedId, roomId (each Undefined or Some).  *)
(* A handler returns the values it sets.                                   *)
(***************************************************************************)
ResizeHandles == {"n", "s", "e", "w", "ne", "nw", "se", "sw"}

\* handle.includes(c) for the eight handle names.
handleIncludes(handle, c) ==
    handle \in (CASE c = "n" -> {"n", "ne", "nw"}
                  [] c = "s" -> {"s", "se", "sw"}
                  [] c = "e" -> {"e", "ne", "se"}
                  [] c = "w" -> {"w", "nw", "sw"})

\* A wrong resize: the west and north handles move their edge by the whole
\* displacement, without the clamp that keeps 10 cm.
resizeRectNoFloor(ds, xCm, yCm) ==
    LET initial == ds.initialRoom[1]
        handle  == ds.resizeHandle
        has(c)  == handleIncludes(handle, c)
        deltaCmX == xCm - svgPixelsToCm(ds.startX, 0).xCm
        deltaCmY == yCm - svgPixelsToCm(0, ds.startY).yCm
        wE == IF has("e") THEN Max(10, initial.widthCm + deltaCmX) ELSE initial.widthCm
        hS == IF has("s") THEN Max(10, initial.heightCm + deltaCmY) ELSE initial.heightCm
    IN  [newX |-> IF has("w") THEN initial.xCm + deltaCmX ELSE initial.xCm,
         newY |-> IF has("n") THEN initial.yCm + deltaCmY ELSE initial.yCm,
         newW |-> IF has("w") THEN initial.widthCm - deltaCmX ELSE wE,
         newH |-> IF has("n") THEN initial.heightCm - deltaCmY ELSE hS]

\* A wrong resize: the west and north handles move their edge and leave the
\* size as it was, so the opposite edge moves along.
resizeRectKeepsSize(ds, xCm, yCm) ==
    LET initial == ds.initialRoom[1]
        handle  == ds.resizeHandle
        has(c)  == handleIncludes(handle, c)
        deltaCmX == xCm - svgPixelsToCm(ds.startX, 0).xCm
        deltaCmY == yCm - svgPixelsToCm(0, ds.startY).yCm
        wE == IF has("e") THEN Max(10, initial.widthCm + deltaCmX) ELSE initial.widthCm
        dW == Min(deltaCmX, initial.widthCm - 10)
        hS == IF has("s") THEN Max(10, initial.heightCm + deltaCmY) ELSE initial.heightCm
        dN == Min(deltaCmY, initial.heightCm - 10)
    IN  [newX |-> IF has("w") THEN initial.xCm + dW ELSE initial.xCm,
         newY |-> IF has("n") THEN initial.yCm + dN ELSE initial.yCm,
         newW |-> IF has("w") THEN initial.widthCm ELSE wE,
         newH |-> IF has("n") THEN initial.heightCm ELSE hS]

\* The resize branch of the pointer-move handler: the rectangle it passes to
\* resizeRoom.
resizeRect(ds, xCm, yCm) ==
    LET initial == ds.initialRoom[1]
        handle  == ds.resizeHandle
        has(c)  == handleIncludes(handle, c)
        deltaCmX == xCm - svgPixelsToCm(ds.startX, 0).xCm
        deltaCmY == yCm - svgPixelsToCm(0, ds.startY).yCm
        wE == IF has("e") THEN Max(10, initial.widthCm + deltaCmX) ELSE initial.widthCm
        dW == Min(deltaCmX, initial.widthCm - 10)
        hS == IF has("s") THEN Max(10, initial.heightCm + deltaCmY) ELSE initial.heightCm
        dN == Min(deltaCmY, initial.heightCm - 10)
    IN  [newX |-> IF has("w") THEN initial.xCm + dW ELSE initial.xCm,
         newY |-> IF has("n") THEN initial.yCm + dN ELSE initial.yCm,
         newW |-> IF has("w") THEN initial.widthCm - dW ELSE wE,
         newH |-> IF has("n") THEN initial.heightCm - dN ELSE hS]

\* The branches of the pointer-down handler; x, y is the pointer in content
\* space.  Each returns the history and the drag descriptor it sets.
pointerDownResize(prev, appState, e, room, x, y) ==
    [history |-> prev,
     dragState |->
        Some([baseDrag(e.resizeRoomId[1], x, y, room.xCm, room.yCm)
                EXCEPT !.targetType = "resize",
                       !.resizeHandle = e.resizeHandle[1],
                       !.initialRoom = Some(room)])]

pointerDownPlaced(prev, appState, placed, x, y) ==
    [history |-> updateState(prev, selectObject(appState, placed.id), FALSE),
     dragState |-> Some([startPlacedDrag(placed, x, y) EXCEPT !.targetType = "placed"])]

\* A wrong room-body branch: a shift-click toggles the selection and starts
\* a drag of the room as well.
pointerDownRoomShiftDrags(prev, appState, e, room, x, y) ==
    [history |-> handleSelectRoom(prev, appState, Some(room.id), e.shiftKey),
     dragState |->
        Some([baseDrag(room.id, x, y, room.xCm, room.yCm)
                EXCEPT !.targetType = "room",
                       !.multiDragRooms =
                           <<[id |-> room.id, startXCm |-> room.xCm,
                              startYCm |-> room.yCm]>>])]

\* A room body: shift-click toggles the selection and starts no drag.
pointerDownRoom(prev, appState, e, room, x, y) ==
    IF e.shiftKey
    THEN [history |-> handleSelectRoom(prev, appState, Some(room.id), TRUE),
          dragState |-> Undefined]
    ELSE
      LET isAlreadySelected == room.id \in SeqToSet(appState.selectedRoomIds)
          selectedIds == IF isAlreadySelected THEN appState.selectedRoomIds
                         ELSE <<room.id>>
          found == SelectSeq(selectedIds,
                             LAMBDA id : getRoomById(appState, id) # Undefined)
          multiDragRooms ==
              MapSeq(found, LAMBDA id :
                  LET r == getRoomById(appState, id)[1]
                  IN  [id |-> r.id, startXCm |-> r.xCm, startYCm |-> r.yCm])
      IN  [history |-> IF isAlreadySelected THEN prev
                       ELSE handleSelectRoom(prev, appState, Some(room.id), FALSE),
           dragState |->
              Some([baseDrag(room.id, x, y, room.xCm, room.yCm)
                      EXCEPT !.targetType = "room",
                             !.multiDragRooms = multiDragRooms])]

\* Empty space: start panning and clear the selection.
pointerDownPan(prev, appState, e) ==
    [history |-> handleSelectRoom(prev, appState, Undefined, FALSE),
     dragState |-> Some(baseDrag("__pan__", e.clientX, e.clientY,
                                 appState.panX, appState.panY))]

\* A wrong measure tool: every click adds a point.
pointerDownMeasureAppends(prev, points, xCm, yCm) ==
    [history |-> prev, dragState |-> Undefined,
     measurePoints |-> Append(points, [xCm |-> xCm, yCm |-> yCm])]

\* The measure tool: a first point, a second point, then a new measurement.
\* The handler returns before it captures the pointer or sets a drag state.
pointerDownMeasure(prev, points, xCm, yCm) ==
    [history |-> prev, dragState |-> Undefined,
     measurePoints |->
        IF Len(points) = 0 THEN <<[xCm |-> xCm, yCm |-> yCm]>>
        ELSE IF Len(points) = 1 THEN <<points[1], [xCm |-> xCm, yCm |-> yCm]>>
        ELSE <<[xCm |-> xCm, yCm |-> yCm]>>]

\* The branches of the select tool do not touch the measure points.
keepMeasurePoints(r, points) ==
    [history |-> r.history, dragState |-> r.dragState, measurePoints |-> points]

\* A wrong pointer-down handler: the room body is tested before the resize
\* handle and the placed object.
handleSvgPointerDownRoomFirst(prev, appState, tool, points, e) ==
    LET pt == getSvgCoordinates(e, appState.panX, appState.panY, appState.zoom)
        resizeRoom0 == IF e.resizeHandle # Undefined /\ e.resizeRoomId # Undefined
                       THEN getRoomById(appState, e.resizeRoomId[1])
                       ELSE Undefined
        placed == IF e.placedId # Undefined
                  THEN FindSeq(appState.placedObjects, LAMBDA p : p.id = e.placedId[1])
                  ELSE Undefined
        room == IF e.roomId # Undefined THEN getRoomById(appState, e.roomId[1])
                ELSE Undefined
        cm == svgPixelsToCm(pt.x, pt.y)
    IN
    IF tool = "measure" THEN pointerDownMeasure(prev, points, cm.xCm, cm.yCm)
    ELSE keepMeasurePoints(
      IF room # Undefined THEN pointerDownRoom(prev, appState, e, room[1], pt.x, pt.y)
      ELSE IF resizeRoom0 # Undefined
      THEN pointerDownResize(prev, appState, e, resizeRoom0[1], pt.x, pt.y)
      ELSE IF placed # Undefined
      THEN pointerDownPlaced(prev, appState, placed[1], pt.x, pt.y)
      ELSE pointerDownPan(prev, appState, e),
      points)

handleSvgPointerDown(prev, appState, tool, points, e) ==
    LET pt == getSvgCoordinates(e, appState.panX, appState.panY, appState.zoom)
        x == pt.x
        y == pt.y
        resizeRoom0 == IF e.resizeHandle # Undefined /\ e.resizeRoomId # Undefined
                       THEN getRoomById(appState, e.resizeRoomId[1])
                       ELSE Undefined
        placed == IF e.placedId # Undefined
                  THEN FindSeq(appState.placedObjects, LAMBDA p : p.id = e.placedId[1])
                  ELSE Undefined
        room == IF e.roomId # Undefined THEN getRoomById(appState, e.roomId[1])
                ELSE Undefined
        cm == svgPixelsToCm(x, y)
    IN
    IF tool = "measure" THEN pointerDownMeasure(prev, points, cm.xCm, cm.yCm)
    ELSE keepMeasurePoints(
      IF resizeRoom0 # Undefined
      THEN pointerDownResize(prev, appState, e, resizeRoom0[1], x, y)
      ELSE IF placed # Undefined
      THEN pointerDownPlaced(prev, appState, placed[1], x, y)
      ELSE IF e.roomId # Undefined
      THEN IF room = Undefined THEN [history |-> prev, dragState |-> Undefined]
           ELSE pointerDownRoom(prev, appState, e, room[1], x, y)
      ELSE pointerDownPan(prev, appState, e),
      points)

\* The branches of the pointer-move handler; xCm, yCm is the position that
\* calculateDragPosition gives.  Each returns the history and the snap result
\* it sets.
pointerMovePan(prev, appState, ds, snapResult, e) ==
    [history |->
        updateState(prev,
            updateViewport(appState, ds.roomStartX + (e.clientX - ds.startX),
                           ds.roomStartY + (e.clientY - ds.startY),
                           appState.zoom),
            FALSE),
     currentSnapResult |-> snapResult]

pointerMoveResize(prev, appState, ds, snapResult, xCm, yCm) ==
    LET rect == resizeRect(ds, xCm, yCm)
    IN  [history |->
            updateState(prev,
                resizeRoom(appState, ds.roomId, rect.newX, rect.newY,
                           rect.newW, rect.newH),
                FALSE),
         currentSnapResult |-> snapResult]

\* A wrong placed-object branch: an object that is no longer there is put
\* back at the pointer.
pointerMovePlacedRestores(prev, appState, ds, snapResult, xCm, yCm) ==
    LET placed == FindSeq(appState.placedObjects, LAMBDA p : p.id = ds.roomId)
    IN  [history |->
            updateState(prev,
                IF placed # Undefined
                THEN updatePlacedObjectPosition(appState, ds.roomId, xCm, yCm)
                ELSE [appState EXCEPT !.placedObjects =
                        Append(@, [id |-> ds.roomId, defId |-> "", roomId |-> "",
                                   xCm |-> Max(0, xCm), yCm |-> Max(0, yCm),
                                   rotationDeg |-> 0])],
                FALSE),
         currentSnapResult |-> snapResult]

pointerMovePlaced(prev, appState, ds, snapResult, xCm, yCm) ==
    LET unchanged == [history |-> prev, currentSnapResult |-> snapResult]
        placed == FindSeq(appState.placedObjects, LAMBDA p : p.id = ds.roomId)
    IN
    IF placed = Undefined THEN unchanged
    ELSE
      LET def  == FindSeq(appState.objectDefs, LAMBDA d : d.id = placed[1].defId)
          room == FindSeq(appState.rooms, LAMBDA r : r.id = placed[1].roomId)
      IN
      IF def = Undefined \/ room = Undefined THEN unchanged
      ELSE
        LET currentRotation == placed[1].rotationDeg
            defOf(p) == FindSeq(appState.objectDefs, LAMBDA d : d.id = p.defId)
            inRoom == SelectSeq(appState.placedObjects,
                          LAMBDA p : /\ p.roomId = room[1].id
                                     /\ p.id # placed[1].id
                                     /\ defOf(p) # Undefined)
            otherObjectsInRoom ==
                MapSeq(inRoom, LAMBDA p :
                    LET visual == getVisualBounds(p.xCm, p.yCm,
                                      defOf(p)[1].widthCm, defOf(p)[1].heightCm,
                                      p.rotationDeg)
                    IN  [id |-> p.id, xCm |-> visual.x, yCm |-> visual.y,
                         widthCm |-> visual.w, heightCm |-> visual.h])
            visualBounds == getVisualBounds(xCm, yCm, def[1].widthCm,
                                            def[1].heightCm, currentRotation)
            snapRes == calculatePlacedObjectSnap(visualBounds.w, visualBounds.h,
                           room[1], visualBounds.x, visualBounds.y,
                           OBJECT_SNAP_TOLERANCE_CM, otherObjectsInRoom,
                           Some(placed[1].id))
            storageCoords == visualToStorage(snapRes.xCm, snapRes.yCm,
                                 def[1].widthCm, def[1].heightCm, currentRotation)
        IN  [history |->
                updateState(prev,
                    updatePlacedObjectPosition(appState, placed[1].id,
                        storageCoords.xCm, storageCoords.yCm),
                    FALSE),
             currentSnapResult |-> Some(snapRes)]

pointerMoveRooms(prev, appState, ds, snapResult, xCm, yCm) ==
    LET room == getRoomById(appState, ds.roomId)
    IN
    IF room = Undefined THEN [history |-> prev, currentSnapResult |-> snapResult]
    ELSE
      LET snap == calculateSnap(room[1], appState.rooms, xCm, yCm,
                                appState.globalWallThicknessCm)
          constrained == constrainRoomPosition(snap.xCm, snap.yCm)
          deltaX == constrained.xCm - ds.roomStartX
          deltaY == constrained.yCm - ds.roomStartY
          roomMoves ==
              MapSeq(ds.multiDragRooms, LAMBDA r :
                  [id |-> r.id, xCm |-> Max(0, r.startXCm + deltaX),
                   yCm |-> Max(0, r.startYCm + deltaY)])
      IN  [history |-> updateState(prev, moveRooms(appState, roomMoves), FALSE),
           currentSnapResult |-> Some(snap)]

\* ds is the drag descriptor (the handler returns at once when there is none).
handleSvgPointerMove(prev, appState, ds, snapResult, e) ==
    LET pt == getSvgCoordinates(e, appState.panX, appState.panY, appState.zoom)
        pos == calculateDragPosition(ds, pt.x, pt.y)
        xCm == pos.xCm
        yCm == pos.yCm
    IN
    IF ds.roomId = "__pan__"
    THEN pointerMovePan(prev, appState, ds, snapResult, e)
    ELSE IF ds.targetType = "resize" /\ ds.initialRoom # Undefined /\ ds.resizeHandle # ""
    THEN pointerMoveResize(prev, appState, ds, snapResult, xCm, yCm)
    ELSE IF ds.targetType = "placed"
    THEN pointerMovePlaced(prev, appState, ds, snapResult, xCm, yCm)
    ELSE IF ds.targetType = "room" /\ Len(ds.multiDragRooms) > 0
    THEN pointerMoveRooms(prev, appState, ds, snapResult, xCm, yCm)
    ELSE [history |-> prev, currentSnapResult |-> snapResult]

\* A wrong pointer-up handler: the drag is dropped without a checkpoint.
handleSvgPointerUpNoCheckpoint(prev, appState, drag) ==
    [history |-> prev, dragState |-> Undefined, currentSnapResult |-> Undefined]

\* drag is the value of dragState: Undefined (null) or Some(descriptor).
handleSvgPointerUp(prev, appState, drag) ==
    [history |->
        IF drag # Undefined /\ drag[1].roomId # "__pan__"
        THEN recordHistory([prev EXCEPT !.present = appState], appState)
        ELSE prev,
     dragState |-> Undefined,
     currentSnapResult |-> Undefined]

(***************************************************************************)
(* Pure-function checks: the arguments are drawn in the initial state and  *)
(* one action per function applies it.                                     *)
(***************************************************************************)
MaxRoomList == 2

MaxOtherObjects == 2

\* All sequences without repetition of at most n elements of S.
SeqsOf(S, n) ==
    UNION {{f \in [1..k -> S] : \A i, j \in 1..k : i # j => f[i] # f[j]} : k \in 0..n}

AllSides(t) == [north |-> t, south |-> t, east |-> t, west |-> t]

GeomRoomA ==
    [id |-> "A", xCm |-> 0, yCm |-> 0, widthCm |-> 300, heightCm |-> 400,
     wallThickness |-> AllSides(10)]

GeomRoomC ==
    [id |-> "C", xCm |-> 330, yCm |-> 100, widthCm |-> 100, heightCm |-> 120,
     wallThickness |-> [e \in {"east"} |-> 20]]

GeomRoomD ==
    [id |-> "D", xCm |-> 318, yCm |-> 440, widthCm |-> 80, heightCm |-> 60,
     wallThickness |-> NoWallThickness]

GeomMoving(wt) ==
    [id |-> "B", xCm |-> 600, yCm |-> 600, widthCm |-> 200, heightCm |-> 150,
     wallThickness |-> wt]

GeomMovingWalls ==
    {NoWallThickness, AllSides(10), [s \in {"west", "north"} |-> IF s = "west" THEN 4 ELSE 8]}

GeomTargetXs == {-225, -210, -194, 1, 3, 99, 120, 295, 310, 322, 325, 326}

GeomTargetYs == {-175, -160, -144, 2, 235, 250, 410, 426}

RoomSnapCalls ==
    {[fn |-> "calculateSnap", movingRoom |-> GeomMoving(wt), allRooms |-> rs,
      targetXCm |-> tx, targetYCm |-> ty, globalWallThicknessCm |-> g] :
        wt \in GeomMovingWalls,
        rs \in SeqsOf({GeomRoomA, GeomRoomC, GeomRoomD, GeomMoving(NoWallThickness)},
                      MaxRoomList),
        tx \in GeomTargetXs, ty \in GeomTargetYs, g \in {10, 6}}

\* A room of the minimum size, so that an alignment rule and a wall-overlap
\* rule of the same neighbour can match together.
GeomRoomE ==
    [id |-> "E", xCm |-> 1000, yCm |-> 1000, widthCm |-> 10, heightCm |-> 10,
     wallThickness |-> AllSides(3)]

NarrowSnapCalls ==
    {[fn |-> "calculateSnap", movingRoom |-> GeomMoving(wt), allRooms |-> rs,
      targetXCm |-> tx, targetYCm |-> ty, globalWallThicknessCm |-> g] :
        wt \in GeomMovingWalls, rs \in {<<GeomRoomE>>, <<GeomRoomA, GeomRoomE>>},
        tx \in {1001, 1007, 1030}, ty \in {950, 1005, 1007}, g \in {10, 6}}

GeomObjRoom ==
    [id |-> "R", xCm |-> 100, yCm |-> 100, widthCm |-> 300, heightCm |-> 200,
     wallThickness |-> NoWallThickness]

GeomObjects ==
    {[id |-> "p0", xCm |-> 105, yCm |-> 105, widthCm |-> 40, heightCm |-> 30],
     [id |-> "p1", xCm |-> 200, yCm |-> 150, widthCm |-> 50, heightCm |-> 40],
     [id |-> "p2", xCm |-> 262, yCm |-> 130, widthCm |-> 30, heightCm |-> 60],
     [id |-> "p3", xCm |-> 130, yCm |-> 240, widthCm |-> 20, heightCm |-> 20]}

GeomObjTargetXs == {70, 100, 112, 120, 126, 150, 158, 205, 215, 240, 255, 345, 362}

GeomObjTargetYs == {80, 104, 118, 160, 185, 262}

ObjectSnapCalls ==
    {[fn |-> "calculatePlacedObjectSnap", objWidthCm |-> w, objHeightCm |-> 30,
      room |-> GeomObjRoom, targetXCm |-> tx, targetYCm |-> ty,
      toleranceCm |-> tol, otherObjects |-> os, currentObjectId |-> cur] :
        w \in {40, 60}, tx \in GeomObjTargetXs, ty \in GeomObjTargetYs,
        tol \in {OBJECT_SNAP_TOLERANCE_CM, 10},
        os \in SeqsOf(GeomObjects, MaxOtherObjects),
        cur \in {Undefined, Some("p0")}}

\* Positions in half centimetres, sizes in half centimetres of whole-cm sizes.
RotationCalls ==
    {[fn |-> "rotation", objXCm |-> x, objYCm |-> y, origW |-> w, origH |-> h,
      rotationDeg |-> rot] :
        x \in -2..3, y \in -2..3, w \in {2, 4, 6, 10}, h \in {2, 4, 6, 10},
        rot \in {0, 90, 180, 270, 360}}

\* Resize sessions: the room a handle was pressed on (rooms are created with
\* any positive size), where the pointer went down and where it is now, in
\* content pixels.
ResizeSizes == {5, 10, 12, 60}

ResizeCalls ==
    {[fn |-> "resize",
      ds |-> [baseDrag("r1", sx, sy, 40, 20)
                EXCEPT !.targetType = "resize", !.resizeHandle = hd,
                       !.initialRoom =
                           Some([id |-> "r1", xCm |-> 40, yCm |-> 20,
                                 widthCm |-> w, heightCm |-> h,
                                 wallThickness |-> NoWallThickness])],
      x |-> px, y |-> py] :
        hd \in ResizeHandles, w \in ResizeSizes, h \in {5, 40},
        sx \in {0, 250}, sy \in {100}, px \in {-500, 0, 250, 300, 1000},
        py \in {-500, 100, 600}}

\* The centre of a resize handle of a room, in content pixels.
HandlePoint(room, handle) ==
    LET x == room.xCm * SCALE
        y == room.yCm * SCALE
        w == room.widthCm * SCALE
        h == room.heightCm * SCALE
    IN  [x |-> IF handleIncludes(handle, "w") THEN x
               ELSE IF handleIncludes(handle, "e") THEN x + w ELSE x + w \div 2,
         y |-> IF handleIncludes(handle, "n") THEN y
               ELSE IF handleIncludes(handle, "s") THEN y + h ELSE y + h \div 2]

HandleRooms ==
    {[id |-> "r1", xCm |-> x, yCm |-> y, widthCm |-> w, heightCm |-> h,
      wallThickness |-> NoWallThickness] :
        x \in {0, 40}, y \in {0, 20}, w \in {10, 60, 100}, h \in {10, 40}}

\* Resize sessions that start on the centre of a handle; the pointer is
\* then at the same place or moved away from it.
HandleResizeCalls ==
    {[fn |-> "resize",
      ds |-> [baseDrag("r1", HandlePoint(room, hd).x, HandlePoint(room, hd).y,
                       room.xCm, room.yCm)
                EXCEPT !.targetType = "resize", !.resizeHandle = hd,
                       !.initialRoom = Some(room)],
      x |-> HandlePoint(room, hd).x + dx, y |-> HandlePoint(room, hd).y + dy] :
        room \in HandleRooms, hd \in ResizeHandles, dx \in {-50, 0, 50}, dy \in {0, 50}}

NoRet == [fn |-> "none"]

InitGeom ==
    /\ history = createInitialHistory
    /\ dragState = Undefined
    /\ currentSnapResult = Undefined
    /\ nextId = 1
    /\ toolMode = "select"
    /\ measurePoints = <<>>
    /\ last = NoLast
    /\ pc = "call"
    /\ call \in RoomSnapCalls \cup NarrowSnapCalls \cup ObjectSnapCalls
                \cup RotationCalls \cup ResizeCalls \cup HandleResizeCalls
    /\ ret = NoRet

editorVars == <<history, dragState, currentSnapResult, nextId, last>>

ApplyCalculateSnap ==
    /\ pc = "call"
    /\ call.fn = "calculateSnap"
    /\ ret' = calculateSnap(call.movingRoom, call.allRooms, call.targetXCm,
                            call.targetYCm, call.globalWallThicknessCm)
    /\ pc' = "done"
    /\ UNCHANGED <<toolVars, editorVars, call>>

ApplyCalculatePlacedObjectSnap ==
    /\ pc = "call"
    /\ call.fn = "calculatePlacedObjectSnap"
    /\ ret' = calculatePlacedObjectSnap(call.objWidthCm, call.objHeightCm,
                  call.room, call.targetXCm, call.targetYCm, call.toleranceCm,
                  call.otherObjects, call.currentObjectId)
    /\ pc' = "done"
    /\ UNCHANGED <<toolVars, editorVars, call>>

\* getVisualBounds, then visualToStorage of its top-left corner.
ApplyRotationRoundTrip ==
    /\ pc = "call"
    /\ call.fn = "rotation"
    /\ LET visual == getVisualBounds(call.objXCm, call.objYCm, call.origW,
                                     call.origH, call.rotationDeg)
       IN  ret' = [visual  |-> visual,
                   storage |-> visualToStorage(visual.x, visual.y, call.origW,
                                               call.origH, call.rotationDeg)]
    /\ pc' = "done"
    /\ UNCHANGED <<toolVars, editorVars, call>>

\* calculateDragPosition, then the resize branch of the pointer-move handler.
ApplyResizeRect ==
    /\ pc = "call"
    /\ call.fn = "resize"
    /\ LET pos == calculateDragPosition(call.ds, call.x, call.y)
       IN  ret' = [pos |-> pos, rect |-> resizeRect(call.ds, pos.xCm, pos.yCm)]
    /\ pc' = "done"
    /\ UNCHANGED <<toolVars, editorVars, call>>

NextGeom ==
    \/ ApplyCalculateSnap
    \/ ApplyCalculatePlacedObjectSnap
    \/ ApplyRotationRoundTrip
    \/ ApplyResizeRect

SpecGeom == InitGeom /\ [][NextGeom]_vars

(***************************************************************************)
(* The editor under pointer events and undo/redo.  The initial state is    *)
(* the state after the load effect: an empty past and future and a stored  *)
(* document as present.                                                    *)
(***************************************************************************)
MaxSessions == 1

\* Pointer samples in client pixels: where the pointer goes down and where
\* it is moved to.
PointerDownXs == {50}

PointerDownYs == {0}

PointerXs == {0, 50, 100}

PointerYs == {0, 50}

DragRoom1 ==
    [id |-> "r1", xCm |-> 0, yCm |-> 0, widthCm |-> 100, heightCm |-> 80,
     wallThickness |-> NoWallThickness]

DragRoom2 ==
    [id |-> "r2", xCm |-> 130, yCm |-> 0, widthCm |-> 100, heightCm |-> 80,
     wallThickness |-> [sd \in {"west"} |-> 10]]

DragDef == [id |-> "d1", widthCm |-> 40, heightCm |-> 20]

DragPlaced(rot) ==
    <<[id |-> "p1", defId |-> "d1", roomId |-> "r1", xCm |-> 10, yCm |-> 10,
       rotationDeg |-> rot],
      [id |-> "p2", defId |-> "d1", roomId |-> "r1", xCm |-> 60, yCm |-> 50,
       rotationDeg |-> 0]>>

DragOpening ==
    [id |-> "o1", roomId |-> "r2", wall |-> "west", positionCm |-> 10,
     widthCm |-> 90, type |-> "door"]

DragDocs ==
    {[emptyAppState EXCEPT !.rooms = <<DragRoom1, DragRoom2>>,
                           !.wallOpenings = <<DragOpening>>,
                           !.objectDefs = <<DragDef>>,
                           !.placedObjects = DragPlaced(rot),
                           !.selectedRoomIds = sel] :
        rot \in {0, 90}, sel \in {<<>>, <<"r1", "r2">>}}

NoHit ==
    [resizeHandle |-> Undefined, resizeRoomId |-> Undefined,
     placedId |-> Undefined, roomId |-> Undefined]

\* What closest() finds for a pointer-down on each kind of element of the
\* rendered document: empty canvas, a room rectangle, a placed object
\* (rendered inside its room, when its definition exists), a resize handle
\* (rendered for selected rooms only; it carries the room id as well).
Hits(appState) ==
    {NoHit}
    \cup {[NoHit EXCEPT !.roomId = Some(r.id)] : r \in SeqToSet(appState.rooms)}
    \cup {[NoHit EXCEPT !.placedId = Some(p.id)] :
            p \in {q \in SeqToSet(appState.placedObjects) :
                     /\ \E r \in SeqToSet(appState.rooms) : r.id = q.roomId
                     /\ \E d \in SeqToSet(appState.objectDefs) : d.id = q.defId}}
    \cup {[NoHit EXCEPT !.resizeHandle = Some(h), !.resizeRoomId = Some(r.id),
                        !.roomId = Some(r.id)] :
            h \in ResizeHandles,
            r \in {rm \in SeqToSet(appState.rooms) :
                     rm.id \in SeqToSet(appState.selectedRoomIds)}}

PointerEvents(xs, ys, hits) ==
    {[clientX |-> cx, clientY |-> cy, shiftKey |-> sh,
      resizeHandle |-> hit.resizeHandle, resizeRoomId |-> hit.resizeRoomId,
      placedId |-> hit.placedId, roomId |-> hit.roomId] :
        cx \in xs, cy \in ys, sh \in BOOLEAN, hit \in hits}

InitDrag ==
    /\ history \in {[past |-> <<>>, present |-> doc, future |-> <<>>] : doc \in DragDocs}
    /\ dragState = Undefined
    /\ currentSnapResult = Undefined
    /\ nextId = 1
    /\ toolMode = "select"
    /\ measurePoints = <<>>
    /\ last = NoLast
    /\ pc = "idle"
    /\ call = NoRet
    /\ ret = NoRet

geomVars == <<pc, call, ret>>

PointerDown ==
    /\ dragState = Undefined
    /\ last.sessions < MaxSessions
    /\ \E e \in PointerEvents(PointerDownXs, PointerDownYs, Hits(history.present)) :
         /\ e.shiftKey => e.roomId # Undefined /\ e.resizeHandle = Undefined
         /\ LET r == handleSvgPointerDown(history, history.present, toolMode,
                                           measurePoints, e)
            IN  /\ history' = r.history
                /\ dragState' = r.dragState
                /\ measurePoints' = r.measurePoints
    /\ last' = [Event("pointerdown") EXCEPT !.sessions = @ + 1]
    /\ UNCHANGED <<toolMode, currentSnapResult, nextId, geomVars>>

PointerMove ==
    /\ \E e \in PointerEvents(PointerXs, PointerYs, {NoHit}) :
         /\ ~e.shiftKey
         /\ IF dragState = Undefined
            THEN UNCHANGED <<history, currentSnapResult>>
            ELSE LET r == handleSvgPointerMove(history, history.present,
                                               dragState[1], currentSnapResult, e)
                 IN  /\ history' = r.history
                     /\ currentSnapResult' = r.currentSnapResult
    /\ last' = Event("pointermove")
    /\ UNCHANGED <<toolVars, dragState, nextId, geomVars>>

\* onPointerUp, onPointerCancel and onPointerLeave all bind this handler.
PointerUp ==
    /\ LET r == handleSvgPointerUp(history, history.present, dragState)
       IN  /\ history' = r.history
           /\ dragState' = r.dragState
           /\ currentSnapResult' = r.currentSnapResult
    /\ last' = [Event("pointerup") EXCEPT !.released = dragState]
    /\ UNCHANGED <<toolVars, nextId, geomVars>>

\* Ctrl/Cmd+Z
KeyUndo ==
    /\ history' = handleUndo(history)
    /\ last' = Event("undo")
    /\ UNCHANGED <<toolVars, dragState, currentSnapResult, nextId, geomVars>>

\* Ctrl/Cmd+Y, Ctrl/Cmd+Shift+Z
KeyRedo ==
    /\ history' = handleRedo(history)
    /\ last' = Event("redo")
    /\ UNCHANGED <<toolVars, dragState, currentSnapResult, nextId, geomVars>>

NextDrag ==
    \/ PointerDown
    \/ PointerMove
    \/ PointerUp
    \/ KeyUndo
    \/ KeyRedo

SpecDrag == InitDrag /\ [][NextDrag]_vars

(***************************************************************************)
(* The history alone: N recorded updates, then N undos, then N redos, from *)
(* an arbitrary history.  pc is the phase, call the scenario (the history  *)
(* it started from, N, the last state recorded), ret the undos and redos   *)
(* done.                                                                   *)
(***************************************************************************)
MaxRecords == 3

MaxInitialStack == 1

HistDocs ==
    {emptyAppState}
    \cup {[emptyAppState EXCEPT !.rooms = <<[DragRoom1 EXCEPT !.xCm = x]>>] : x \in {0, 20}}

InitHistory ==
    /\ history \in {[past |-> p, present |-> d, future |-> f] :
                      p \in SeqsOf(HistDocs, MaxInitialStack), d \in HistDocs,
                      f \in SeqsOf(HistDocs, MaxInitialStack)}
    /\ dragState = Undefined
    /\ currentSnapResult = Undefined
    /\ nextId = 1
    /\ toolMode = "select"
    /\ measurePoints = <<>>
    /\ last = NoLast
    /\ pc = "record"
    /\ call = [fn |-> "roundTrip", h0 |-> history, n |-> 0, final |-> history.present]
    /\ ret = [undone |-> 0, redone |-> 0]

RoundTripRecord ==
    /\ pc = "record"
    /\ call.n < MaxRecords
    /\ \E newState \in HistDocs :
         /\ history' = updateState(history, newState, TRUE)
         /\ call' = [call EXCEPT !.n = @ + 1, !.final = newState]
    /\ last' = Event("record")
    /\ UNCHANGED <<toolVars, dragState, currentSnapResult, nextId, pc, ret>>

RoundTripUndo ==
    /\ pc \in {"record", "undo"}
    /\ call.n >= 1
    /\ ret.undone < call.n
    /\ history' = handleUndo(history)
    /\ pc' = "undo"
    /\ ret' = [ret EXCEPT !.undone = @ + 1]
    /\ last' = Event("undo")
    /\ UNCHANGED <<toolVars, dragState, currentSnapResult, nextId, call>>

RoundTripRedo ==
    /\ pc \in {"undo", "redo"}
    /\ ret.undone = call.n
    /\ ret.redone < call.n
    /\ history' = handleRedo(history)
    /\ pc' = "redo"
    /\ ret' = [ret EXCEPT !.redone = @ + 1]
    /\ last' = Event("redo")
    /\ UNCHANGED <<toolVars, dragState, currentSnapResult, nextId, call>>

NextHistory ==
    \/ RoundTripRecord
    \/ RoundTripUndo
    \/ RoundTripRedo

SpecHistory == InitHistory /\ [][NextHistory]_vars

(***************************************************************************)
(* The editor under the delete, select, add-door and place-object          *)
(* commands and undo/redo, from a stored document.                         *)
(***************************************************************************)
MaxPast == 2

MaxNewIds == 1

DocDocs ==
    {[emptyAppState EXCEPT !.rooms = <<DragRoom1, DragRoom2>>,
                           !.wallOpenings = <<DragOpening>>,
                           !.objectDefs = <<DragDef>>,
                           !.placedObjects = DragPlaced(0),
                           !.selectedRoomIds = sel,
                           !.selectedObjectId = obj] :
        sel \in {<<>>, <<"r1">>, <<"r1", "r2">>}, obj \in {Undefined, Some("p1")}}

InitDoc ==
    /\ history \in {[past |-> <<>>, present |-> doc, future |-> <<>>] : doc \in DocDocs}
    /\ dragState = Undefined
    /\ currentSnapResult = Undefined
    /\ nextId = 1
    /\ toolMode = "select"
    /\ measurePoints = <<>>
    /\ last = NoLast
    /\ pc = "idle"
    /\ call = NoRet
    /\ ret = NoRet

\* The openings and placed objects of a document that refer to the rooms ids.
RefsTo(state, ids) ==
    Len(SelectSeq(state.wallOpenings, LAMBDA o : o.roomId \in ids))
      + Len(SelectSeq(state.placedObjects, LAMBDA p : p.roomId \in ids))

Deletion(name, ids) ==
    [Event(name) EXCEPT !.deleted = ids, !.refsBefore = RefsTo(history.present, ids)]

CanRecord == Len(history.past) < MaxPast

\* The Delete button of the properties panel of the selected room.
ClickDeleteRoom ==
    /\ CanRecord
    /\ selectedRoomOf(history.present) # Undefined
    /\ LET roomId == selectedRoomOf(history.present)[1].id
       IN  /\ history' = handleDeleteRoom(history, history.present, roomId)
           /\ last' = Deletion("deleteRoom", {roomId})
    /\ UNCHANGED <<toolVars, dragState, currentSnapResult, nextId, geomVars>>

\* The rooms a Delete of the selection removes: none when an object is selected.
SelectionToDelete ==
    IF history.present.selectedObjectId # Undefined THEN {}
    ELSE SeqToSet(history.present.selectedRoomIds)

ClickDeleteSelected ==
    /\ CanRecord
    /\ history' = handleDeleteSelected(history, history.present)
    /\ last' = Deletion("deleteSelected", SelectionToDelete)
    /\ UNCHANGED <<toolVars, dragState, currentSnapResult, nextId, geomVars>>

KeyDelete ==
    /\ CanRecord
    /\ history' = handleKeyDownDelete(history, history.present)
    /\ last' = Deletion("keyDelete", SelectionToDelete)
    /\ UNCHANGED <<toolVars, dragState, currentSnapResult, nextId, geomVars>>

KeySelectAll ==
    /\ history' = handleKeyDownSelectAll(history, history.present)
    /\ last' = Event("selectAll")
    /\ UNCHANGED <<toolVars, dragState, currentSnapResult, nextId, geomVars>>

KeyEscape ==
    /\ history' = handleKeyDownEscape(history, history.present)
    /\ last' = Event("escape")
    /\ UNCHANGED <<toolVars, dragState, currentSnapResult, nextId, geomVars>>

\* The Add Door button of the door panel of the selected room; the panel
\* has checked that the door fits the wall.
ClickAddDoor ==
    /\ CanRecord
    /\ nextId <= MaxNewIds
    /\ selectedRoomOf(history.present) # Undefined
    /\ LET room == selectedRoomOf(history.present)[1]
       IN  history' = handleAddDoor(history, history.present, newIdName(nextId),
                                    room.id, "north", 0, room.widthCm)
    /\ nextId' = nextId + 1
    /\ last' = Event("addDoor")
    /\ UNCHANGED <<toolVars, dragState, currentSnapResult, geomVars>>

ClickPlaceObjectDef ==
    /\ CanRecord
    /\ nextId <= MaxNewIds
    /\ \E d \in SeqToSet(history.present.objectDefs) :
         history' = handlePlaceObjectDef(history, history.present,
                                         newIdName(nextId), d.id)
    /\ nextId' = nextId + 1
    /\ last' = Event("placeObject")
    /\ UNCHANGED <<toolVars, dragState, currentSnapResult, geomVars>>

NextDoc ==
    \/ ClickDeleteRoom
    \/ ClickDeleteSelected
    \/ KeyDelete
    \/ KeySelectAll
    \/ KeyEscape
    \/ ClickAddDoor
    \/ ClickPlaceObjectDef
    \/ KeyUndo
    \/ KeyRedo

SpecDoc == InitDoc /\ [][NextDoc]_vars

(***************************************************************************)
(* The editor under one pointer in select mode, with the three release     *)
(* events told apart and keys pressed while a session is active.  The      *)
(* initial history may hold an earlier document (before room r2 was        *)
(* added), so that an undo during a session removes the room.              *)
(***************************************************************************)
MaxKeys == 1

SlideXs == {0, 100}

SlideYs == {0}

PointerDocs ==
    {[emptyAppState EXCEPT !.rooms = <<DragRoom1, DragRoom2>>,
                           !.wallOpenings = <<DragOpening>>,
                           !.objectDefs = <<DragDef>>,
                           !.placedObjects = DragPlaced(0),
                           !.selectedRoomIds = sel] :
        sel \in {<<>>, <<"r1", "r2">>}}

\* The document before room r2 and its door were added.
PointerEarlierDoc ==
    [emptyAppState EXCEPT !.rooms = <<DragRoom1>>,
                          !.objectDefs = <<DragDef>>,
                          !.placedObjects = DragPlaced(0)]

InitPointer ==
    /\ history \in {[past |-> p, present |-> doc, future |-> <<>>] :
                      p \in {<<>>, <<PointerEarlierDoc>>}, doc \in PointerDocs}
    /\ dragState = Undefined
    /\ currentSnapResult = Undefined
    /\ nextId = 1
    /\ toolMode = "select"
    /\ measurePoints = <<>>
    /\ last = NoLast
    /\ pc = "idle"
    /\ call = NoRet
    /\ ret = NoRet

\* The svg element binds the pointer-up handler to three events.
onPointerUp(prev, appState, drag, snapResult) == handleSvgPointerUp(prev, appState, drag)

onPointerCancel(prev, appState, drag, snapResult) == handleSvgPointerUp(prev, appState, drag)

\* A wrong binding: nothing is bound to pointer-leave.
onPointerLeaveUnbound(prev, appState, drag, snapResult) ==
    [history |-> prev, dragState |-> drag, currentSnapResult |-> snapResult]

onPointerLeave(prev, appState, drag, snapResult) == handleSvgPointerUp(prev, appState, drag)

\* A pointer goes down while no session is active.
Press ==
    /\ dragState = Undefined
    /\ last.sessions < MaxSessions
    /\ \E e \in PointerEvents(PointerDownXs, PointerDownYs, Hits(history.present)) :
         /\ e.shiftKey => e.roomId # Undefined /\ e.resizeHandle = Undefined
         /\ LET r == handleSvgPointerDown(history, history.present, toolMode,
                                           measurePoints, e)
            IN  /\ history' = r.history
                /\ dragState' = r.dragState
                /\ measurePoints' = r.measurePoints
         /\ last' = [Event("pointerdown") EXCEPT !.sessions = @ + 1, !.e = e]
    /\ UNCHANGED <<toolMode, currentSnapResult, nextId, geomVars>>

Slide ==
    /\ \E e \in PointerEvents(SlideXs, SlideYs, {NoHit}) :
         /\ ~e.shiftKey
         /\ IF dragState = Undefined
            THEN UNCHANGED <<history, currentSnapResult>>
            ELSE LET r == handleSvgPointerMove(history, history.present,
                                               dragState[1], currentSnapResult, e)
                 IN  /\ history' = r.history
                     /\ currentSnapResult' = r.currentSnapResult
    /\ last' = [Event("pointermove") EXCEPT !.released = dragState]
    /\ UNCHANGED <<toolVars, dragState, nextId, geomVars>>

Release(name, r) ==
    /\ history' = r.history
    /\ dragState' = r.dragState
    /\ currentSnapResult' = r.currentSnapResult
    /\ last' = [Event(name) EXCEPT !.released = dragState]
    /\ UNCHANGED <<toolVars, nextId, geomVars>>

ReleaseUp ==
    Release("pointerup",
            onPointerUp(history, history.present, dragState, currentSnapResult))

ReleaseCancel ==
    Release("pointercancel",
            onPointerCancel(history, history.present, dragState, currentSnapResult))

ReleaseLeave ==
    Release("pointerleave",
            onPointerLeave(history, history.present, dragState, currentSnapResult))

\* A key pressed while the pointer is down.
KeyDuringSession == dragState # Undefined /\ last.keys < MaxKeys

Key(name) == [Event(name) EXCEPT !.keys = @ + 1, !.released = dragState]

SessionKeyDelete ==
    /\ KeyDuringSession
    /\ history' = handleKeyDownDelete(history, history.present)
    /\ last' = Key("keyDelete")
    /\ UNCHANGED <<toolVars, dragState, currentSnapResult, nextId, geomVars>>

SessionKeyUndo ==
    /\ KeyDuringSession
    /\ history' = handleUndo(history)
    /\ last' = Key("undo")
    /\ UNCHANGED <<toolVars, dragState, currentSnapResult, nextId, geomVars>>

SessionKeyRedo ==
    /\ KeyDuringSession
    /\ history' = handleRedo(history)
    /\ last' = Key("redo")
    /\ UNCHANGED <<toolVars, dragState, currentSnapResult, nextId, geomVars>>

NextPointer ==
    \/ Press
    \/ Slide
    \/ ReleaseUp
    \/ ReleaseCancel
    \/ ReleaseLeave
    \/ SessionKeyDelete
    \/ SessionKeyUndo
    \/ SessionKeyRedo

SpecPointer == InitPointer /\ [][NextPointer]_vars

(***************************************************************************)
(* Shared walls.  The adjacency resolver and the tie-break belong to       *)
(* model/state and follow the specification; the two editors (page.tsx     *)
(* and the editor in next.config.ts) decide with them which room draws a   *)
(* wall.                                                                   *)
(***************************************************************************)
OppositeSide(side) ==
    CASE side = "north" -> "south" [] side = "south" -> "north"
      [] side = "east" -> "west" [] side = "west" -> "east"

outerEdge(room, side, globalWallThicknessCm) ==
    LET o == outerBoundsCm(room, globalWallThicknessCm, room.xCm, room.yCm)
    IN  CASE side = "north" -> o.top [] side = "south" -> o.bottom
          [] side = "west" -> o.left [] side = "east" -> o.right

\* The spans of the two rooms along the wall overlap.
spansOverlap(room, other, side) ==
    IF side \in {"north", "south"}
    THEN room.xCm < other.xCm + other.widthCm /\ other.xCm < room.xCm + room.widthCm
    ELSE room.yCm < other.yCm + other.heightCm /\ other.yCm < room.yCm + room.heightCm

\* other abuts room on side: the outer edge of room on that side coincides
\* with the facing outer edge of other (the epsilon is below one centimetre)
\* and the spans overlap.
isAdjacent(state, room, other, side) ==
    /\ other.id # room.id
    /\ outerEdge(room, side, state.globalWallThicknessCm)
         = outerEdge(other, OppositeSide(side), state.globalWallThicknessCm)
    /\ spansOverlap(room, other, side)

\* The first neighbour found in the scan of the rooms, with the side of it
\* that faces back.
findAdjacentRoom(state, room, side) ==
    LET hit == FindSeq(state.rooms, LAMBDA o : isAdjacent(state, room, o, side))
    IN  IF hit = Undefined THEN Undefined
        ELSE Some([otherRoom |-> hit[1], otherWall |-> OppositeSide(side)])

\* The order of the ids (string comparison of one-letter ids).
idRank(id) ==
    CASE id = "a" -> 1 [] id = "b" -> 2 [] id = "c" -> 3 [] id = "d" -> 4
      [] OTHER -> 5

shouldRenderSharedWall(roomA, roomB) == idRank(roomA.id) < idRank(roomB.id)

getOpeningsForRoom(state, roomId) ==
    SelectSeq(state.wallOpenings, LAMBDA o : o.roomId = roomId)

getOpeningsForWall(state, roomId, wall) ==
    SelectSeq(state.wallOpenings, LAMBDA o : o.roomId = roomId /\ o.wall = wall)

\* Both rooms' openings on the shared wall.
getCombinedWallOpenings(state, room, side, adjacency) ==
    getOpeningsForWall(state, room.id, side)
      \o getOpeningsForWall(state, adjacency.otherRoom.id, adjacency.otherWall)

\* page.tsx: whether renderWallWithOpenings draws the wall of room on
\* side, and with which openings.
renderWallWithOpenings(state, room, side, adjacentRoom) ==
    IF adjacentRoom # Undefined
         /\ ~shouldRenderSharedWall(room, adjacentRoom[1].otherRoom)
    THEN [rendered |-> FALSE, openings |-> <<>>]
    ELSE [rendered |-> TRUE,
          openings |->
             IF adjacentRoom # Undefined
             THEN getCombinedWallOpenings(state, room, side, adjacentRoom[1])
             ELSE SelectSeq(getOpeningsForRoom(state, room.id),
                            LAMBDA o : o.wall = side)]

\* next.config.ts: one round of wallConfigs.forEach, shouldRender and the
\* openings of the wall.
wallConfigRender(state, room, side, adjacent) ==
    LET roomOpenings == getOpeningsForRoom(state, room.id)
        myOpenings == SelectSeq(roomOpenings, LAMBDA o : o.wall = side)
    IN
    IF adjacent # Undefined
    THEN LET otherRoomOpenings ==
                 getOpeningsForWall(state, adjacent[1].otherRoom.id,
                                    adjacent[1].otherWall)
             shouldRender ==
                 IF Len(myOpenings) > 0 \/ Len(otherRoomOpenings) > 0
                 THEN IF Len(myOpenings) > 0 /\ Len(otherRoomOpenings) > 0
                      THEN shouldRenderSharedWall(room, adjacent[1].otherRoom)
                      ELSE Len(myOpenings) > 0
                 ELSE shouldRenderSharedWall(room, adjacent[1].otherRoom)
         IN  [rendered |-> shouldRender,
              openings |-> getCombinedWallOpenings(state, room, side, adjacent[1])]
    ELSE [rendered |-> TRUE, openings |-> myOpenings]

\* The walls an editor draws: the pairs of a room id and a side.
RenderedWalls(state, render(_, _, _, _)) ==
    {w \in {<<r.id, side>> : r \in SeqToSet(state.rooms), side \in Sides} :
        LET room == getRoomById(state, w[1])[1]
        IN  render(state, room, w[2], findAdjacentRoom(state, room, w[2])).rendered}

\* Layouts: a room W with one to MaxNeighbours rooms abutting its east wall,
\* every assignment of ids, every order of the rooms, and a door on any of
\* the facing walls.
MaxNeighbours == 2

IdNames == <<"a", "b", "c", "d", "e">>

WallRoom(k, id) ==
    IF k = 0
    THEN [id |-> id, xCm |-> 0, yCm |-> 0, widthCm |-> 100,
          heightCm |-> 100 * MaxNeighbours, wallThickness |-> NoWallThickness]
    ELSE [id |-> id, xCm |-> 120, yCm |-> 100 * (k - 1) + 10, widthCm |-> 80,
          heightCm |-> 60, wallThickness |-> NoWallThickness]

WallDoor(room, wall) ==
    [id |-> room.id, roomId |-> room.id, wall |-> wall, positionCm |-> 10,
     widthCm |-> 40, type |-> "door"]

Injections(n, m) ==
    {f \in [1..n -> 1..m] : \A i, j \in 1..n : i # j => f[i] # f[j]}

\* ids[k + 1] is the id of room k, order the order of the rooms in the
\* document, doors the rooms with a door on the facing wall.
WallLayout(n, ids, order, doors) ==
    LET room(k) == WallRoom(k, IdNames[ids[k + 1]])
    IN  [emptyAppState EXCEPT
           !.rooms = [i \in 1..(n + 1) |-> room(order[i] - 1)],
           !.wallOpenings =
               SelectSeq([k \in 1..(n + 1) |->
                            WallDoor(room(k - 1), IF k = 1 THEN "east" ELSE "west")],
                         LAMBDA o : \E k \in doors : o.roomId = IdNames[ids[k + 1]])]

WallCalls ==
    UNION {{[fn |-> "walls", state |-> WallLayout(n, ids, order, doors)] :
              ids \in Injections(n + 1, n + 1), order \in Injections(n + 1, n + 1),
              doors \in SUBSET (0..n)} : n \in 1..MaxNeighbours}

InitWalls ==
    /\ history = createInitialHistory
    /\ dragState = Undefined
    /\ currentSnapResult = Undefined
    /\ nextId = 1
    /\ toolMode = "select"
    /\ measurePoints = <<>>
    /\ last = NoLast
    /\ pc = "call"
    /\ call \in WallCalls
    /\ ret = NoRet

\* The wall layer of page.tsx.
RenderWallsPage ==
    /\ pc = "call"
    /\ ret' = [fn |-> "page.tsx",
               walls |-> RenderedWalls(call.state, renderWallWithOpenings)]
    /\ pc' = "done"
    /\ UNCHANGED <<toolVars, editorVars, call>>

\* The wall layer of the editor in next.config.ts.
RenderWallsConfig ==
    /\ pc = "call"
    /\ ret' = [fn |-> "next.config.ts",
               walls |-> RenderedWalls(call.state, wallConfigRender)]
    /\ pc' = "done"
    /\ UNCHANGED <<toolVars, editorVars, call>>

NextWalls ==
    \/ RenderWallsPage
    \/ RenderWallsConfig

SpecWalls == InitWalls /\ [][NextWalls]_vars

(***************************************************************************)
(* Loading and importing a document.  loadState and importStateFromJson    *)
(* belong to the storage module and follow the specification; the mount    *)
(* effect and handleImport migrate the legacy selection and replace the     *)
(* history.  A document read from JSON is the AppState fields together     *)
(* with the two selection keys as they are in the document: absent, null   *)
(* or a value.                                                             *)
(***************************************************************************)
JsonAbsent == <<"absent">>

JsonNull == <<"null">>

JsonValue(v) == <<"value", v>>

\* The left operand of a ?? b is null or undefined.
Nullish(j) == j[1] \in {"absent", "null"}

\* A string, null or undefined used as a condition.
Truthy(j) == ~Nullish(j) /\ j[2] # ""

\* A wrong migration: the legacy key is not read.
migrateSelectionDropsLegacy(loaded) ==
    IF ~Nullish(loaded.selectedRoomIds) THEN loaded.selectedRoomIds[2] ELSE <<>>

\* loaded.selectedRoomIds ?? (loaded.selectedRoomId ? [loaded.selectedRoomId] : [])
migrateSelection(loaded) ==
    IF ~Nullish(loaded.selectedRoomIds) THEN loaded.selectedRoomIds[2]
    ELSE IF Truthy(loaded.selectedRoomId) THEN <<loaded.selectedRoomId[2]>>
    ELSE <<>>

\* { ...loaded, selectedRoomIds: ... }
migratedState(loaded) ==
    [loaded.fields EXCEPT !.selectedRoomIds = migrateSelection(loaded)]

\* The mount effect.
loadEffect(loaded) ==
    [past |-> <<>>, present |-> migratedState(loaded), future |-> <<>>]

FailedToImport(message) == [text |-> "Failed to import file: ", message |-> message]

\* A wrong import handler: the history is cleared before the file is read.
handleImportClearsFirst(prev, alerts, imported) ==
    IF imported.rejected
    THEN [history |-> [past |-> <<>>, present |-> prev.present, future |-> <<>>],
          alerts |-> Append(alerts, FailedToImport(imported.message))]
    ELSE [history |-> [past |-> <<>>, present |-> migratedState(imported.value[1]),
                       future |-> <<>>],
          alerts |-> alerts]

\* A wrong import handler: the imported document is recorded as a change.
handleImportRecords(prev, alerts, imported) ==
    IF imported.rejected
    THEN [history |-> prev,
          alerts |-> Append(alerts, FailedToImport(imported.message))]
    ELSE [history |-> [past |-> Append(prev.past, prev.present),
                       present |-> migratedState(imported.value[1]),
                       future |-> <<>>],
          alerts |-> alerts]

\* handleImport once the promise of importStateFromJson has settled; alerts
\* are the messages shown with alert().
handleImport(prev, alerts, imported) ==
    IF imported.rejected
    THEN [history |-> prev,
          alerts |-> Append(alerts, FailedToImport(imported.message))]
    ELSE [history |-> [past |-> <<>>, present |-> migratedState(imported.value[1]),
                       future |-> <<>>],
          alerts |-> alerts]

MaxImports == 2

LoadFields == [emptyAppState EXCEPT !.rooms = <<DragRoom1, DragRoom2>>]

\* The documents read from storage or from a file.
LoadDocs ==
    {[fields |-> LoadFields, selectedRoomIds |-> ids, selectedRoomId |-> id] :
        ids \in {JsonAbsent, JsonNull, JsonValue(<<>>), JsonValue(<<"r1">>)},
        id \in {JsonAbsent, JsonNull, JsonValue(""), JsonValue("r2")}}

\* What importStateFromJson settles with: a rejection with a message for a
\* malformed file, the document otherwise.
Resolved(doc) == [rejected |-> FALSE, message |-> "", value |-> Some(doc)]

Rejected(message) == [rejected |-> TRUE, message |-> message, value |-> Undefined]

ImportResults == {Rejected("Invalid JSON")} \cup {Resolved(doc) : doc \in LoadDocs}

NoAlerts == [fn |-> "alert", alerts |-> <<>>]

InitLoad ==
    /\ history = createInitialHistory
    /\ dragState = Undefined
    /\ currentSnapResult = Undefined
    /\ nextId = 1
    /\ toolMode = "select"
    /\ measurePoints = <<>>
    /\ last = NoLast
    /\ pc = "mount"
    /\ call \in {[fn |-> "loadState", result |-> Resolved(doc)] : doc \in LoadDocs}
    /\ ret = NoAlerts

\* The mount effect runs once, before any input.
MountLoad ==
    /\ pc = "mount"
    /\ history' = loadEffect(call.result.value[1])
    /\ pc' = "idle"
    /\ last' = Event("load")
    /\ UNCHANGED <<toolVars, dragState, currentSnapResult, nextId, call, ret>>

\* The file input: handleImport starts and waits for the file.
ImportStart ==
    /\ pc = "idle"
    /\ last.sessions < MaxImports
    /\ \E imported \in ImportResults :
         call' = [fn |-> "importStateFromJson", result |-> imported]
    /\ pc' = "importing"
    /\ last' = [Event("importStart") EXCEPT !.sessions = @ + 1]
    /\ UNCHANGED <<toolVars, history, dragState, currentSnapResult, nextId, ret>>

\* The promise settles and handleImport continues.
ImportSettle ==
    /\ pc = "importing"
    /\ LET out == handleImport(history, ret.alerts, call.result)
       IN  /\ history' = out.history
           /\ ret' = [ret EXCEPT !.alerts = out.alerts]
    /\ pc' = "idle"
    /\ last' = [Event(IF call.result.rejected THEN "importFailed" ELSE "imported")
                   EXCEPT !.futureBefore = Len(history.future)]
    /\ UNCHANGED <<toolVars, dragState, currentSnapResult, nextId, call>>

\* Keys pressed once the editor is mounted, also while a file is being read.
LoadKeyDelete == pc # "mount" /\ KeyDelete

LoadKeySelectAll == pc # "mount" /\ KeySelectAll

LoadKeyUndo == pc # "mount" /\ KeyUndo

LoadKeyRedo == pc # "mount" /\ KeyRedo

NextLoad ==
    \/ MountLoad
    \/ ImportStart
    \/ ImportSettle
    \/ LoadKeyDelete
    \/ LoadKeySelectAll
    \/ LoadKeyUndo
    \/ LoadKeyRedo

SpecLoad == InitLoad /\ [][NextLoad]_vars

(***************************************************************************)
(* The keyboard handler as a whole, the tool buttons and the measure tool. *)
(* nudgeSelectedRooms belongs to model/state and follows the               *)
(* specification.                                                          *)
(***************************************************************************)
NUDGE_AMOUNT == 5

NUDGE_AMOUNT_SHIFT == 20

\* Every selected room moves by (dx, dy), clamped to non-negative
\* coordinates.
nudgeSelectedRooms(state, dx, dy) ==
    [state EXCEPT !.rooms =
        MapSeq(@, LAMBDA r :
            IF r.id \in SeqToSet(state.selectedRoomIds)
            THEN [r EXCEPT !.xCm = Max(0, r.xCm + dx), !.yCm = Max(0, r.yCm + dy)]
            ELSE r)]

ArrowKeys == {"ArrowUp", "ArrowDown", "ArrowLeft", "ArrowRight"}

\* A wrong arrow handler: the selected rooms are moved by the raw amount.
handleKeyDownArrowUnclamped(prev, appState, e) ==
    LET amount == IF e.shiftKey THEN NUDGE_AMOUNT_SHIFT ELSE NUDGE_AMOUNT
        dx == IF e.key = "ArrowLeft" THEN -amount
              ELSE IF e.key = "ArrowRight" THEN amount ELSE 0
        dy == IF e.key = "ArrowUp" THEN -amount
              ELSE IF e.key = "ArrowDown" THEN amount ELSE 0
    IN  updateState(prev,
            [appState EXCEPT !.rooms =
                MapSeq(@, LAMBDA r :
                    IF r.id \in SeqToSet(appState.selectedRoomIds)
                    THEN [r EXCEPT !.xCm = r.xCm + dx, !.yCm = r.yCm + dy]
                    ELSE r)],
            TRUE)

\* handleKeyDown, an arrow key with rooms selected.
handleKeyDownArrow(prev, appState, e) ==
    LET amount == IF e.shiftKey THEN NUDGE_AMOUNT_SHIFT ELSE NUDGE_AMOUNT
        dx == IF e.key = "ArrowLeft" THEN -amount
              ELSE IF e.key = "ArrowRight" THEN amount ELSE 0
        dy == IF e.key = "ArrowUp" THEN -amount
              ELSE IF e.key = "ArrowDown" THEN amount ELSE 0
    IN  updateState(prev, nudgeSelectedRooms(appState, dx, dy), TRUE)

\* handleKeyDown past the test of the event target; tool and points are the
\* values of toolMode and measurePoints the handler closed over.
keyDownShortcuts(prev, appState, tool, points, e) ==
    LET same == [history |-> prev, toolMode |-> tool, measurePoints |-> points]
        mod == e.ctrlKey \/ e.metaKey
    IN
    IF mod /\ e.key = "z" /\ ~e.shiftKey
    THEN [same EXCEPT !.history = handleUndo(prev)]
    ELSE IF mod /\ (e.key = "y" \/ (e.key = "z" /\ e.shiftKey))
    THEN [same EXCEPT !.history = handleRedo(prev)]
    ELSE IF mod /\ e.key = "a"
    THEN [same EXCEPT !.history = handleKeyDownSelectAll(prev, appState)]
    ELSE IF e.key \in {"Delete", "Backspace"}
    THEN [same EXCEPT !.history = handleKeyDownDelete(prev, appState)]
    ELSE IF e.key \in ArrowKeys /\ Len(appState.selectedRoomIds) > 0
    THEN [same EXCEPT !.history = handleKeyDownArrow(prev, appState, e)]
    ELSE IF e.key \in {"m", "M"}
    THEN [same EXCEPT !.toolMode = IF tool = "measure" THEN "select" ELSE "measure",
                      !.measurePoints = <<>>]
    ELSE IF e.key = "Escape"
    THEN IF tool # "select"
         THEN [same EXCEPT !.toolMode = "select", !.measurePoints = <<>>]
         ELSE [same EXCEPT !.history = handleKeyDownEscape(prev, appState)]
    ELSE same

\* A wrong handler: the target of the event is not looked at.
handleKeyDownInInputs(prev, appState, tool, points, e) ==
    keyDownShortcuts(prev, appState, tool, points, e)

handleKeyDown(prev, appState, tool, points, e) ==
    IF e.tagName \in {"input", "textarea"}
    THEN [history |-> prev, toolMode |-> tool, measurePoints |-> points]
    ELSE keyDownShortcuts(prev, appState, tool, points, e)

\* The Select and Measure buttons of the toolbar.
handleToolButton(mode) == [toolMode |-> mode, measurePoints |-> <<>>]

MaxToolEvents == 5

ToolDownXs == {50, 100}

ToolKeys ==
    {"z", "y", "a", "Delete", "Backspace", "m", "M", "Escape", "x"} \cup ArrowKeys

\* tagName of the target, in lower case: a text input, a text area, or the
\* document body.
KeyEvents ==
    {[key |-> k, ctrlKey |-> c, metaKey |-> mt, shiftKey |-> sh, tagName |-> t] :
        k \in ToolKeys, c \in BOOLEAN, mt \in BOOLEAN, sh \in BOOLEAN,
        t \in {"input", "textarea", "body"}}

\* The keys of the measure tool and one key without a shortcut.
MeasureKeyEvents == {e \in KeyEvents : e.key \in {"m", "M", "Escape", "x"}}

\* One room with one object in it; the room, the object, both or nothing
\* selected (a document read from a file can have both).
ToolDocs ==
    {[emptyAppState EXCEPT !.rooms = <<DragRoom1>>,
                           !.objectDefs = <<DragDef>>,
                           !.placedObjects = <<DragPlaced(0)[1]>>,
                           !.selectedRoomIds = sel,
                           !.selectedObjectId = obj] :
        sel \in {<<>>, <<"r1">>}, obj \in {Undefined, Some("p1")}}

\* The editor with the select tool, or with the measure tool after a first
\* point was set.
InitKeys ==
    /\ history \in {[past |-> <<>>, present |-> doc, future |-> <<>>] : doc \in ToolDocs}
    /\ dragState = Undefined
    /\ currentSnapResult = Undefined
    /\ nextId = 1
    /\ toolMode \in {"select", "measure"}
    /\ measurePoints = IF toolMode = "select" THEN <<>> ELSE <<[xCm |-> 10, yCm |-> 0]>>
    /\ last = NoLast
    /\ pc = "idle"
    /\ call = NoRet
    /\ ret = NoRet

InitMeasure ==
    /\ history \in {[past |-> <<>>, present |-> doc, future |-> <<>>] : doc \in ToolDocs}
    /\ dragState = Undefined
    /\ currentSnapResult = Undefined
    /\ nextId = 1
    /\ toolMode = "select"
    /\ measurePoints = <<>>
    /\ last = NoLast
    /\ pc = "idle"
    /\ call = NoRet
    /\ ret = NoRet

\* The kind of a key event: its target and the shortcut group of its key.
KeyEventName(e) ==
    IF e.tagName \in {"input", "textarea"} THEN "keyInInput"
    ELSE IF e.key \in {"Delete", "Backspace"} THEN "keyDelete"
    ELSE IF e.key \in ArrowKeys THEN "keyArrow"
    ELSE IF e.key \in {"m", "M"} THEN "keyM"
    ELSE IF e.key = "Escape" THEN "keyEscape"
    ELSE "key"

\* The events of a run are counted in keys.
ToolEvent(name) ==
    [Event(name) EXCEPT !.futureBefore = Len(history.future), !.keys = @ + 1]

\* A key goes down, the event drawn from events.
KeyDownOf(events) ==
    /\ last.keys < MaxToolEvents
    /\ \E e \in events :
         LET r == handleKeyDown(history, history.present, toolMode, measurePoints, e)
         IN  /\ history' = r.history
             /\ toolMode' = r.toolMode
             /\ measurePoints' = r.measurePoints
             /\ last' = ToolEvent(KeyEventName(e))
    /\ UNCHANGED <<dragState, currentSnapResult, nextId, geomVars>>

\* The key events of the keyboard runs: nudges along x only, the meta key
\* only with z.
ShortcutKeyEvents ==
    {e \in KeyEvents : /\ e.key \notin {"ArrowUp", "ArrowDown"}
                       /\ e.metaKey => e.key = "z"}

KeyDown == KeyDownOf(ShortcutKeyEvents)

MeasureKeyDown == KeyDownOf(MeasureKeyEvents)

ClickToolButton ==
    /\ last.keys < MaxToolEvents
    /\ \E mode \in {"select", "measure"} :
         /\ toolMode' = handleToolButton(mode).toolMode
         /\ measurePoints' = handleToolButton(mode).measurePoints
    /\ last' = ToolEvent("toolButton")
    /\ UNCHANGED <<history, dragState, currentSnapResult, nextId, geomVars>>

\* A pointer goes down while no session is active.
ToolPress ==
    /\ dragState = Undefined
    /\ last.keys < MaxToolEvents
    /\ \E e \in PointerEvents(ToolDownXs, PointerDownYs, Hits(history.present)) :
         /\ e.shiftKey => e.roomId # Undefined /\ e.resizeHandle = Undefined
         /\ LET r == handleSvgPointerDown(history, history.present, toolMode,
                                           measurePoints, e)
            IN  /\ history' = r.history
                /\ dragState' = r.dragState
                /\ measurePoints' = r.measurePoints
    /\ last' = [ToolEvent("pointerdown") EXCEPT !.pointsBefore = Len(measurePoints)]
    /\ UNCHANGED <<toolMode, currentSnapResult, nextId, geomVars>>

\* The pointer goes down with the select tool on a room or on the empty canvas.
SelectPress ==
    /\ dragState = Undefined
    /\ toolMode = "select"
    /\ last.keys < MaxToolEvents
    /\ \E e \in PointerEvents({50}, PointerDownYs, Hits(history.present)) :
         /\ ~e.shiftKey
         /\ e.resizeHandle = Undefined
         /\ e.placedId = Undefined
         /\ LET r == handleSvgPointerDown(history, history.present, toolMode,
                                           measurePoints, e)
            IN  /\ history' = r.history
                /\ dragState' = r.dragState
                /\ measurePoints' = r.measurePoints
    /\ last' = ToolEvent("pointerdown")
    /\ UNCHANGED <<toolMode, currentSnapResult, nextId, geomVars>>

ToolRelease ==
    /\ last.keys < MaxToolEvents
    /\ LET r == handleSvgPointerUp(history, history.present, dragState)
       IN  /\ history' = r.history
           /\ dragState' = r.dragState
           /\ currentSnapResult' = r.currentSnapResult
    /\ last' = [ToolEvent("pointerup") EXCEPT !.released = dragState]
    /\ UNCHANGED <<toolVars, nextId, geomVars>>

NextKeys ==
    \/ KeyDown
    \/ SelectPress
    \/ ToolRelease

SpecKeys == InitKeys /\ [][NextKeys]_vars

NextMeasure ==
    \/ MeasureKeyDown
    \/ ClickToolButton
    \/ ToolPress
    \/ ToolRelease

SpecMeasure == InitMeasure /\ [][NextMeasure]_vars

(***************************************************************************)
(* The viewport: panning, the wheel, the zoom buttons and the view reset,  *)
(* with recorded edits, undo and redo in between                           *)
(***************************************************************************)
ZOOM_MIN == 10

ZOOM_MAX == 300

\* A wrong wheel handler: the zoom step is recorded.
handleSvgWheelRecords(prev, appState, e) ==
    LET newZoom == Max(ZOOM_MIN,
                       Min(ZOOM_MAX, IF e.deltaY > 0 THEN (appState.zoom * 9) \div 10
                                     ELSE (appState.zoom * 11) \div 10))
    IN  updateState(prev, updateViewport(appState, appState.panX, appState.panY, newZoom),
                    TRUE)

\* The zoom times 0.9 or 1.1, kept between 0.1 and 3; in percent.
handleSvgWheel(prev, appState, e) ==
    LET newZoom == Max(ZOOM_MIN,
                       Min(ZOOM_MAX, IF e.deltaY > 0 THEN (appState.zoom * 9) \div 10
                                     ELSE (appState.zoom * 11) \div 10))
    IN  updateState(prev, updateViewport(appState, appState.panX, appState.panY, newZoom),
                    FALSE)

\* The minus button of the zoom controls.
handleZoomOut(prev, appState) ==
    updateState(prev,
        updateViewport(appState, appState.panX, appState.panY,
                       Max(ZOOM_MIN, appState.zoom - 20)),
        FALSE)

\* The plus button of the zoom controls.
handleZoomIn(prev, appState) ==
    updateState(prev,
        updateViewport(appState, appState.panX, appState.panY,
                       Min(ZOOM_MAX, appState.zoom + 20)),
        FALSE)

\* The Reset View button.
handleResetView(prev, appState) ==
    updateState(prev, updateViewport(appState, 50, 50, 100), FALSE)

WheelDeltas == {-100, 100}

ViewSlideXs == {0, 100}

\* Undo, redo and a nudge to the right, outside form fields.
ViewKeyEvents ==
    {e \in KeyEvents :
        /\ e.tagName = "body"
        /\ ~e.metaKey /\ ~e.shiftKey
        /\ \/ e.ctrlKey /\ e.key \in {"z", "y"}
           \/ ~e.ctrlKey /\ e.key = "ArrowRight"}

ViewDocs == {doc \in ToolDocs : doc.selectedRoomIds # <<>> /\ doc.selectedObjectId = Undefined}

InitView ==
    /\ history \in {[past |-> <<>>, present |-> doc, future |-> <<>>] : doc \in ViewDocs}
    /\ dragState = Undefined
    /\ currentSnapResult = Undefined
    /\ nextId = 1
    /\ toolMode = "select"
    /\ measurePoints = <<>>
    /\ last = NoLast
    /\ pc = "idle"
    /\ call = NoRet
    /\ ret = NoRet

ViewKeyDown == KeyDownOf(ViewKeyEvents)

\* The pointer moves during a session.
ViewSlide ==
    /\ last.keys < MaxToolEvents
    /\ dragState # Undefined
    /\ \E e \in PointerEvents(ViewSlideXs, PointerDownYs, {NoHit}) :
         /\ ~e.shiftKey
         /\ LET r == handleSvgPointerMove(history, history.present,
                                           dragState[1], currentSnapResult, e)
            IN  /\ history' = r.history
                /\ currentSnapResult' = r.currentSnapResult
    /\ last' = [ToolEvent("pointermove") EXCEPT !.released = dragState]
    /\ UNCHANGED <<toolVars, dragState, nextId, geomVars>>

\* The wheel turns by a step whose result is a whole number of percent.
Wheel ==
    /\ last.keys < MaxToolEvents
    /\ \E dy \in WheelDeltas :
         /\ (history.present.zoom * (IF dy > 0 THEN 9 ELSE 11)) % 10 = 0
         /\ history' = handleSvgWheel(history, history.present, [deltaY |-> dy])
    /\ last' = ToolEvent("wheel")
    /\ UNCHANGED <<toolVars, dragState, currentSnapResult, nextId, geomVars>>

ClickZoomOut ==
    /\ last.keys < MaxToolEvents
    /\ history' = handleZoomOut(history, history.present)
    /\ last' = ToolEvent("zoomButton")
    /\ UNCHANGED <<toolVars, dragState, currentSnapResult, nextId, geomVars>>

ClickZoomIn ==
    /\ last.keys < MaxToolEvents
    /\ history' = handleZoomIn(history, history.present)
    /\ last' = ToolEvent("zoomButton")
    /\ UNCHANGED <<toolVars, dragState, currentSnapResult, nextId, geomVars>>

ClickResetView ==
    /\ last.keys < MaxToolEvents
    /\ history' = handleResetView(history, history.present)
    /\ last' = ToolEvent("resetView")
    /\ UNCHANGED <<toolVars, dragState, currentSnapResult, nextId, geomVars>>

NextView ==
    \/ ViewKeyDown
    \/ SelectPress
    \/ ViewSlide
    \/ ToolRelease
    \/ Wheel
    \/ ClickZoomOut
    \/ ClickZoomIn
    \/ ClickResetView

SpecView == InitView /\ [][NextView]_vars

(***************************************************************************)
(* Moving rooms: drags of one or several rooms, handle resizes and arrow   *)
(* nudges, from rooms at non-negative positions                            *)
(***************************************************************************)
MaxMoveEvents == 4

MoveSlideXs == {-100, 100}

MoveSlideYs == {-100, 0}

\* Two rooms side by side, the first or both selected.
MoveDocs ==
    {[emptyAppState EXCEPT !.rooms = <<DragRoom1, DragRoom2>>,
                           !.selectedRoomIds = sel] :
        sel \in {<<"r1">>, <<"r1", "r2">>}}

\* The arrow keys, with and without Shift, outside form fields.
MoveKeyEvents ==
    {e \in KeyEvents :
        /\ e.tagName = "body"
        /\ ~e.ctrlKey /\ ~e.metaKey
        /\ e.key \in ArrowKeys}

InitMove ==
    /\ history \in {[past |-> <<>>, present |-> doc, future |-> <<>>] : doc \in MoveDocs}
    /\ dragState = Undefined
    /\ currentSnapResult = Undefined
    /\ nextId = 1
    /\ toolMode = "select"
    /\ measurePoints = <<>>
    /\ last = NoLast
    /\ pc = "idle"
    /\ call = NoRet
    /\ ret = NoRet

MoveKeyDown ==
    /\ last.keys < MaxMoveEvents
    /\ KeyDownOf(MoveKeyEvents)

\* The pointer goes down on a room body or on a resize handle.
MovePress ==
    /\ dragState = Undefined
    /\ last.keys < MaxMoveEvents
    /\ \E e \in PointerEvents({50}, PointerDownYs, Hits(history.present)) :
         /\ ~e.shiftKey
         /\ e.roomId # Undefined
         /\ LET r == handleSvgPointerDown(history, history.present, toolMode,
                                           measurePoints, e)
            IN  /\ history' = r.history
                /\ dragState' = r.dragState
                /\ measurePoints' = r.measurePoints
    /\ last' = ToolEvent("pointerdown")
    /\ UNCHANGED <<toolMode, currentSnapResult, nextId, geomVars>>

MoveSlide ==
    /\ last.keys < MaxMoveEvents
    /\ dragState # Undefined
    /\ \E e \in PointerEvents(MoveSlideXs, MoveSlideYs, {NoHit}) :
         /\ ~e.shiftKey
         /\ LET r == handleSvgPointerMove(history, history.present,
                                           dragState[1], currentSnapResult, e)
            IN  /\ history' = r.history
                /\ currentSnapResult' = r.currentSnapResult
    /\ last' = [ToolEvent("pointermove") EXCEPT !.released = dragState]
    /\ UNCHANGED <<toolVars, dragState, nextId, geomVars>>

MoveRelease ==
    /\ last.keys < MaxMoveEvents
    /\ ToolRelease

NextMove ==
    \/ MoveKeyDown
    \/ MovePress
    \/ MoveSlide
    \/ MoveRelease

SpecMove == InitMove /\ [][NextMove]_vars

(***************************************************************************)
(* Dragging a placed object along the walls of its room                    *)
(***************************************************************************)
MaxObjectEvents == 3

ObjectSlideXs == {-100, -75, 50, 275}

ObjectSlideYs == {0, 50}

\* One room at the left border of the canvas or away from it, with one
\* object of 40 x 20 cm in it, in one of the four rotations.
ObjectDocs ==
    {[emptyAppState EXCEPT
        !.rooms = <<[DragRoom1 EXCEPT !.xCm = rx]>>,
        !.objectDefs = <<DragDef>>,
        !.placedObjects = <<[id |-> "p1", defId |-> "d1", roomId |-> "r1",
                             xCm |-> rx + 30, yCm |-> 30, rotationDeg |-> rot]>>] :
        rx \in {0, 100}, rot \in {0, 90, 180, 270}}

InitObject ==
    /\ history \in {[past |-> <<>>, present |-> doc, future |-> <<>>] : doc \in ObjectDocs}
    /\ dragState = Undefined
    /\ currentSnapResult = Undefined
    /\ nextId = 1
    /\ toolMode = "select"
    /\ measurePoints = <<>>
    /\ last = NoLast
    /\ pc = "idle"
    /\ call = NoRet
    /\ ret = NoRet

\* The pointer goes down on the placed object.
ObjectPress ==
    /\ dragState = Undefined
    /\ last.keys < MaxObjectEvents
    /\ \E e \in PointerEvents({50}, PointerDownYs, Hits(history.present)) :
         /\ ~e.shiftKey
         /\ e.placedId # Undefined
         /\ LET r == handleSvgPointerDown(history, history.present, toolMode,
                                           measurePoints, e)
            IN  /\ history' = r.history
                /\ dragState' = r.dragState
                /\ measurePoints' = r.measurePoints
    /\ last' = ToolEvent("pointerdown")
    /\ UNCHANGED <<toolMode, currentSnapResult, nextId, geomVars>>

ObjectSlide ==
    /\ last.keys < MaxObjectEvents
    /\ dragState # Undefined
    /\ \E e \in PointerEvents(ObjectSlideXs, ObjectSlideYs, {NoHit}) :
         /\ ~e.shiftKey
         /\ LET r == handleSvgPointerMove(history, history.present,
                                           dragState[1], currentSnapResult, e)
            IN  /\ history' = r.history
                /\ currentSnapResult' = r.currentSnapResult
    /\ last' = [ToolEvent("pointermove") EXCEPT !.released = dragState]
    /\ UNCHANGED <<toolVars, dragState, nextId, geomVars>>

ObjectRelease ==
    /\ last.keys < MaxObjectEvents
    /\ dragState # Undefined
    /\ ToolRelease

NextObject ==
    \/ ObjectPress
    \/ ObjectSlide
    \/ ObjectRelease

SpecObject == InitObject /\ [][NextObject]_vars

(***************************************************************************)
(* Clicks: a pointer-down with the pointer-up right after it, between      *)
(* recorded changes, undo and redo                                         *)
(***************************************************************************)
MaxClickEvents == 4

\* Delete, undo and redo, outside form fields.
ClickKeyEvents ==
    {e \in KeyEvents :
        /\ e.tagName = "body"
        /\ ~e.metaKey /\ ~e.shiftKey
        /\ \/ e.ctrlKey /\ e.key \in {"z", "y"}
           \/ ~e.ctrlKey /\ e.key = "Delete"}

InitClick ==
    /\ history \in {[past |-> <<>>, present |-> doc, future |-> <<>>] : doc \in ToolDocs}
    /\ dragState = Undefined
    /\ currentSnapResult = Undefined
    /\ nextId = 1
    /\ toolMode = "select"
    /\ measurePoints = <<>>
    /\ last = NoLast
    /\ pc = "idle"
    /\ call = NoRet
    /\ ret = NoRet

ClickKeyDown ==
    /\ last.keys < MaxClickEvents
    /\ KeyDownOf(ClickKeyEvents)

\* The pointer goes down, without Shift, on the empty canvas, a room body,
\* a placed object or a resize handle of a selected room.
ClickPress ==
    /\ dragState = Undefined
    /\ last.keys < MaxClickEvents
    /\ \E e \in PointerEvents({50}, PointerDownYs, Hits(history.present)) :
         /\ ~e.shiftKey
         /\ LET r == handleSvgPointerDown(history, history.present, toolMode,
                                           measurePoints, e)
            IN  /\ history' = r.history
                /\ dragState' = r.dragState
                /\ measurePoints' = r.measurePoints
    /\ last' = ToolEvent("pointerdown")
    /\ UNCHANGED <<toolMode, currentSnapResult, nextId, geomVars>>

ClickRelease ==
    /\ last.keys < MaxClickEvents
    /\ ToolRelease

NextClick ==
    \/ ClickKeyDown
    \/ ClickPress
    \/ ClickRelease

SpecClick == InitClick /\ [][NextClick]_vars

(***************************************************************************)
(* Handlers and renders.  The pointer handlers are created by each render  *)
(* of the component and read appState, dragState and currentSnapResult     *)
(* from that render; the state setters take effect at once, the handlers   *)
(* see the new values after the next render.  In these runs call holds the *)
(* values of the last render, and a render is a step of its own.           *)
(***************************************************************************)
MaxRenderEvents == 4

Rendered ==
    [fn |-> "render", appState |-> history.present, dragState |-> dragState,
     currentSnapResult |-> currentSnapResult]

InitRender ==
    /\ history \in {[past |-> <<>>, present |-> doc, future |-> <<>>] : doc \in ToolDocs}
    /\ dragState = Undefined
    /\ currentSnapResult = Undefined
    /\ nextId = 1
    /\ toolMode = "select"
    /\ measurePoints = <<>>
    /\ last = NoLast
    /\ pc = "idle"
    /\ call = Rendered
    /\ ret = NoRet

\* The component renders with the current state.
Render ==
    /\ call # Rendered
    /\ call' = Rendered
    /\ UNCHANGED <<history, dragState, currentSnapResult, nextId, toolVars, last, pc, ret>>

\* The pointer goes down, without Shift, while no session is active.
RenderPress ==
    /\ dragState = Undefined
    /\ last.keys < MaxRenderEvents
    /\ \E e \in PointerEvents({50}, PointerDownYs, Hits(call.appState)) :
         /\ ~e.shiftKey
         /\ LET r == handleSvgPointerDown(history, call.appState, toolMode,
                                           measurePoints, e)
            IN  /\ history' = r.history
                /\ dragState' = r.dragState
                /\ measurePoints' = r.measurePoints
    /\ last' = ToolEvent("pointerdown")
    /\ UNCHANGED <<toolMode, currentSnapResult, nextId, geomVars>>

\* handleSvgPointerMove returns at once when its dragState is null.
RenderSlide ==
    /\ last.keys < MaxRenderEvents
    /\ call.dragState # Undefined
    /\ \E e \in PointerEvents({100}, {0}, {NoHit}) :
         /\ ~e.shiftKey
         /\ LET r == handleSvgPointerMove(history, call.appState, call.dragState[1],
                                           call.currentSnapResult, e)
            IN  /\ history' = r.history
                /\ currentSnapResult' = r.currentSnapResult
    /\ last' = [ToolEvent("pointermove") EXCEPT !.released = call.dragState]
    /\ UNCHANGED <<toolVars, dragState, nextId, geomVars>>

\* A release handler runs with the values of the last render; released is
\* the dragState it saw.
RenderRelease(name, r) ==
    /\ last.keys < MaxRenderEvents
    /\ history' = r.history
    /\ dragState' = r.dragState
    /\ currentSnapResult' = r.currentSnapResult
    /\ last' = [ToolEvent(name) EXCEPT !.released = call.dragState]
    /\ UNCHANGED <<toolVars, nextId, geomVars>>

\* The pointer that went down goes up.
RenderUp ==
    /\ dragState # Undefined
    /\ RenderRelease("pointerup",
                     onPointerUp(history, call.appState, call.dragState,
                                 call.currentSnapResult))

RenderCancel ==
    RenderRelease("pointercancel",
                  onPointerCancel(history, call.appState, call.dragState,
                                  call.currentSnapResult))

RenderLeave ==
    RenderRelease("pointerleave",
                  onPointerLeave(history, call.appState, call.dragState,
                                 call.currentSnapResult))

NextRender ==
    \/ Render
    \/ RenderPress
    \/ RenderSlide
    \/ RenderUp
    \/ RenderCancel
    \/ RenderLeave

SpecRender == InitRender /\ [][NextRender]_vars

(***************************************************************************)
(* Pointer-up with the release of the pointer capture.  The call of        *)
(* releasePointerCapture throws when the pointer is not captured by the    *)
(* svg element; whether it does is an input of the handler.  In these runs *)
(* pc tells whether the last release call threw.                           *)
(***************************************************************************)
MaxCaptureEvents == 3

\* The exception leaves the try block without the catch clause.
releaseEscapesUncaught(throws) == throws

\* try { svgRef.current.releasePointerCapture(e.pointerId) } catch { }:
\* whether an exception leaves the statement.
releaseEscapes(throws) == FALSE

\* handleSvgPointerUp with the outcome of releasePointerCapture: the
\* checkpoint is queued before the call, the two setters come after it and
\* are reached unless an exception leaves the try statement.
handleSvgPointerUpCapture(prev, appState, drag, snapResult, throws) ==
    [history |->
        IF drag # Undefined /\ drag[1].roomId # "__pan__"
        THEN recordHistory([prev EXCEPT !.present = appState], appState)
        ELSE prev,
     dragState |-> IF releaseEscapes(throws) THEN drag ELSE Undefined,
     currentSnapResult |-> IF releaseEscapes(throws) THEN snapResult ELSE Undefined]

InitCapture ==
    /\ history \in {[past |-> <<>>, present |-> doc, future |-> <<>>] : doc \in ToolDocs}
    /\ dragState = Undefined
    /\ currentSnapResult = Undefined
    /\ nextId = 1
    /\ toolMode = "select"
    /\ measurePoints = <<>>
    /\ last = NoLast
    /\ pc = "idle"
    /\ call = NoRet
    /\ ret = NoRet

CapturePress ==
    /\ dragState = Undefined
    /\ last.keys < MaxCaptureEvents
    /\ \E e \in PointerEvents({50}, PointerDownYs, Hits(history.present)) :
         /\ ~e.shiftKey
         /\ LET r == handleSvgPointerDown(history, history.present, toolMode,
                                           measurePoints, e)
            IN  /\ history' = r.history
                /\ dragState' = r.dragState
                /\ measurePoints' = r.measurePoints
    /\ last' = ToolEvent("pointerdown")
    /\ UNCHANGED <<toolMode, currentSnapResult, nextId, geomVars>>

CaptureSlide ==
    /\ last.keys < MaxCaptureEvents
    /\ dragState # Undefined
    /\ \E e \in PointerEvents({100}, {0}, {NoHit}) :
         /\ ~e.shiftKey
         /\ LET r == handleSvgPointerMove(history, history.present,
                                           dragState[1], currentSnapResult, e)
            IN  /\ history' = r.history
                /\ currentSnapResult' = r.currentSnapResult
    /\ last' = [ToolEvent("pointermove") EXCEPT !.released = dragState]
    /\ UNCHANGED <<toolVars, dragState, nextId, geomVars>>

CaptureRelease ==
    /\ last.keys < MaxCaptureEvents
    /\ \E throws \in BOOLEAN :
         LET r == handleSvgPointerUpCapture(history, history.present, dragState,
                                            currentSnapResult, throws)
         IN  /\ history' = r.history
             /\ dragState' = r.dragState
             /\ currentSnapResult' = r.currentSnapResult
             /\ pc' = IF throws THEN "threw" ELSE "released"
    /\ last' = [ToolEvent("pointerup") EXCEPT !.released = dragState]
    /\ UNCHANGED <<toolVars, nextId, call, ret>>

NextCapture ==
    \/ CapturePress
    \/ CaptureSlide
    \/ CaptureRelease

SpecCapture == InitCapture /\ [][NextCapture]_vars

(***************************************************************************)
(* Properties of the snap engine and of the rotation helpers               *)
(***************************************************************************)
RoomSnapDone == pc = "done" /\ call.fn = "calculateSnap"

ObjectSnapDone == pc = "done" /\ call.fn = "calculatePlacedObjectSnap"

RotationDone == pc = "done" /\ call.fn = "rotation"

\* The neighbour of a room-snap call with the given id.
CallNeighbour(id) ==
    LET i == CHOOSE k \in 1..Len(call.allRooms) : call.allRooms[k].id = id
    IN  call.allRooms[i]

NeighbourInner(id) ==
    innerBoundsCm(CallNeighbour(id), CallNeighbour(id).xCm, CallNeighbour(id).yCm)

\* The moving room's outer bounds at the target and at the returned position.
OuterAtTarget ==
    outerBoundsCm(call.movingRoom, call.globalWallThicknessCm,
                  call.targetXCm, call.targetYCm)

OuterAtResult ==
    outerBoundsCm(call.movingRoom, call.globalWallThicknessCm, ret.xCm, ret.yCm)

C7_ExampleCase ==
    /\ RoomSnapDone
    /\ SelectSeq(call.allRooms, LAMBDA r : r.id # call.movingRoom.id) = <<GeomRoomA>>
    /\ getWallThicknessCm(call.movingRoom, call.globalWallThicknessCm) = AllSides(10)
    /\ Abs(OuterAtTarget.left - 300) <= WALL_SNAP_TOLERANCE_CM

ShiftRoomX(r, d) == [r EXCEPT !.xCm = @ + d, !.widthCm = @ + d]

ShiftRoomY(r, d) == [r EXCEPT !.yCm = @ + d, !.heightCm = @ + d]

ShiftSeqX(rs, d) == [i \in 1..Len(rs) |-> ShiftRoomX(rs[i], d)]

ShiftSeqY(rs, d) == [i \in 1..Len(rs) |-> ShiftRoomY(rs[i], d)]

AxisShifts == {0, 20}

XPart(r) == <<r.xCm, r.snappedX, r.xGuideCm>>

YPart(r) == <<r.yCm, r.snappedY, r.yGuideCm>>

RoomSnapAxesIndependent ==
    /\ \A tx2 \in GeomTargetXs, d \in AxisShifts :
         YPart(calculateSnap(ShiftRoomX(call.movingRoom, d),
                             ShiftSeqX(call.allRooms, d), tx2, call.targetYCm,
                             call.globalWallThicknessCm)) = YPart(ret)
    /\ \A ty2 \in GeomTargetYs, d \in AxisShifts :
         XPart(calculateSnap(ShiftRoomY(call.movingRoom, d),
                             ShiftSeqY(call.allRooms, d), call.targetXCm, ty2,
                             call.globalWallThicknessCm)) = XPart(ret)

ObjectSnapAxesIndependent ==
    /\ \A tx2 \in GeomObjTargetXs, d \in AxisShifts :
         YPart(calculatePlacedObjectSnap(call.objWidthCm + d, call.objHeightCm,
                   ShiftRoomX(call.room, d), tx2, call.targetYCm,
                   call.toleranceCm, ShiftSeqX(call.otherObjects, d),
                   call.currentObjectId)) = YPart(ret)
    /\ \A ty2 \in GeomObjTargetYs, d \in AxisShifts :
         XPart(calculatePlacedObjectSnap(call.objWidthCm, call.objHeightCm + d,
                   ShiftRoomY(call.room, d), call.targetXCm, ty2,
                   call.toleranceCm, ShiftSeqY(call.otherObjects, d),
                   call.currentObjectId)) = XPart(ret)

\* C8: in calculateSnap and in calculatePlacedObjectSnap the returned yCm,
\* snappedY (and guide) are the same for every other value of the X inputs
\* (target x, the rooms' and objects' x and width), and the same for X with
\* the Y inputs changed; an axis that does not snap returns its target.
C8_SnapAxesIndependent ==
    /\ RoomSnapDone => RoomSnapAxesIndependent
    /\ ObjectSnapDone => ObjectSnapAxesIndependent
    /\ (RoomSnapDone \/ ObjectSnapDone) =>
         /\ ~ret.snappedY => ret.yCm = call.targetYCm
         /\ ~ret.snappedX => ret.xCm = call.targetXCm

\* X snapped to the first neighbour while Y snapped to a later one.
C8_Witness ==
    /\ RoomSnapDone
    /\ ret.snappedX /\ ret.snappedY
    /\ ret.xOther # ret.yOther
    /\ ret.xCm # call.targetXCm /\ ret.yCm # call.targetYCm

\* The candidates of an object-snap call on one axis, each with the position
\* it would give and its distance: the two room walls within toleranceCm and
\* the four edge pairs of every other object within 15 cm.
Within(cands, tol) == {c \in cands : c.dist <= tol}

ObjCandidates(target, size, lo, hi, others, otherLo(_), otherHi(_)) ==
    Within({[pos |-> lo, dist |-> Abs(target - lo)],
            [pos |-> hi - size, dist |-> Abs(target + size - hi)]},
           call.toleranceCm)
    \cup
    Within(UNION {{[pos |-> otherHi(o), dist |-> Abs(target - otherHi(o))],
                   [pos |-> otherLo(o) - size,
                    dist |-> Abs(target + size - otherLo(o))],
                   [pos |-> otherLo(o), dist |-> Abs(target - otherLo(o))],
                   [pos |-> otherHi(o) - size,
                    dist |-> Abs(target + size - otherHi(o))]} : o \in others},
           OBJECT_TO_OBJECT_SNAP_TOLERANCE_CM)

CallOtherObjects ==
    {call.otherObjects[i] : i \in 1..Len(call.otherObjects)}
      \ {o \in GeomObjects : call.currentObjectId = Some(o.id)}

ObjCandidatesX ==
    ObjCandidates(call.targetXCm, call.objWidthCm, call.room.xCm,
                  call.room.xCm + call.room.widthCm, CallOtherObjects,
                  LAMBDA o : o.xCm, LAMBDA o : o.xCm + o.widthCm)

ObjCandidatesY ==
    ObjCandidates(call.targetYCm, call.objHeightCm, call.room.yCm,
                  call.room.yCm + call.room.heightCm, CallOtherObjects,
                  LAMBDA o : o.yCm, LAMBDA o : o.yCm + o.heightCm)

NearestWins(cands, cm, snapped) ==
    /\ \A c1, c2 \in cands : c1.dist < c2.dist => cm # c2.pos
    /\ cands # {} => snapped /\ \E c \in cands : c.pos = cm

IndexOrders(sq) ==
    {p \in [1..Len(sq) -> 1..Len(sq)] : \A i, j \in 1..Len(sq) : i # j => p[i] # p[j]}

\* C9: in calculatePlacedObjectSnap with the wall tolerance of 25 cm, on each
\* axis the result is never the position of a candidate that has a nearer
\* candidate, and it is a candidate's position whenever there is one; the
\* distance of the chosen candidate is the same for every order of otherObjects.
C9_ObjectSnapNearestWins ==
    (ObjectSnapDone /\ call.toleranceCm = OBJECT_SNAP_TOLERANCE_CM) =>
      /\ NearestWins(ObjCandidatesX, ret.xCm, ret.snappedX)
      /\ NearestWins(ObjCandidatesY, ret.yCm, ret.snappedY)
      /\ \A p \in IndexOrders(call.otherObjects) :
           LET r2 == calculatePlacedObjectSnap(call.objWidthCm, call.objHeightCm,
                         call.room, call.targetXCm, call.targetYCm,
                         call.toleranceCm,
                         [i \in 1..Len(call.otherObjects) |-> call.otherObjects[p[i]]],
                         call.currentObjectId)
           IN  /\ Abs(r2.xCm - call.targetXCm) = Abs(ret.xCm - call.targetXCm)
               /\ Abs(r2.yCm - call.targetYCm) = Abs(ret.yCm - call.targetYCm)

\* A wall candidate, tested first, loses against a nearer object candidate.
C9_Witness ==
    /\ ObjectSnapDone
    /\ call.toleranceCm = OBJECT_SNAP_TOLERANCE_CM
    /\ Len(call.otherObjects) = 2
    /\ \E c1, c2 \in ObjCandidatesX :
         /\ c1.dist < c2.dist
         /\ c2.pos = call.room.xCm
         /\ ret.xCm = c1.pos
         /\ ret.xCm # call.targetXCm

\* C10: for rotation 90 or 270, visualToStorage applied to the top-left corner
\* of getVisualBounds(P) returns P; for a rotation that is a multiple of 180
\* both functions leave the position as it is.
C10_RotationRoundTrip ==
    RotationDone =>
      /\ call.rotationDeg \in {90, 270} =>
           ret.storage = [xCm |-> call.objXCm, yCm |-> call.objYCm]
      /\ call.rotationDeg % 180 = 0 =>
           /\ ret.visual.x = call.objXCm /\ ret.visual.y = call.objYCm
           /\ ret.storage = [xCm |-> call.objXCm, yCm |-> call.objYCm]

\* A quarter turn of a non-square object: the visual corner differs from P.
C10_Witness ==
    /\ RotationDone
    /\ call.rotationDeg = 270
    /\ call.origW # call.origH
    /\ ret.visual.x # call.objXCm
    /\ ret.visual.w = call.origH
    /\ ret.storage.xCm = call.objXCm

(***************************************************************************)
(* Properties of the history under pointer sessions and undo/redo          *)
(***************************************************************************)
IsPrefix(sq, longer) ==
    Len(sq) <= Len(longer) /\ SubSeq(longer, 1, Len(sq)) = sq

\* C2: an undo with an empty past leaves past, present and future as they
\* are, and so does a redo with an empty future, each time it is issued.
C2_UndoRedoAtEndIsNoOp ==
    [][/\ (last'.ev = "undo" /\ history.past = <<>>) => history' = history
       /\ (last'.ev = "redo" /\ history.future = <<>>) => history' = history]_vars

\* An undo has just been handled and both stacks are empty: the undo found
\* nothing to pop (a successful undo leaves a non-empty future).
C2_Witness ==
    /\ last.ev = "undo"
    /\ history.past = <<>>
    /\ history.future = <<>>
    /\ last.sessions = 1

\* A drag or resize session is active: not a pan.
ActiveSession(drag) == drag # Undefined /\ drag[1].roomId # "__pan__"

\* C3: a pointer-down and every pointer-move leave past and future unchanged
\* (they only replace present), and the pointer-up of a room, object or resize
\* session appends exactly one entry to past.
C3_DragIsOneCheckpoint ==
    [][/\ last'.ev \in {"pointerdown", "pointermove"} =>
            /\ history'.past = history.past
            /\ history'.future = history.future
       /\ (last'.ev = "pointerup" /\ ActiveSession(dragState)) =>
            /\ Len(history'.past) = Len(history.past) + 1
            /\ IsPrefix(history.past, history'.past)
            /\ history'.present = history.present]_vars

\* A room drag that moved the room has been released: one entry in past.
C3_Witness ==
    /\ last.ev = "pointerup"
    /\ last.released # Undefined
    /\ last.released[1].targetType = "room"
    /\ Len(history.past) = 1
    /\ \E r \in SeqToSet(history.present.rooms) :
         /\ r.id = last.released[1].roomId
         /\ r.xCm # last.released[1].roomStartX

\* The position of the entity a drag descriptor names, <<>> if it is gone.
DraggedPos(state, ds) ==
    LET found == IF ds.targetType = "placed"
                 THEN FindSeq(state.placedObjects, LAMBDA p : p.id = ds.roomId)
                 ELSE FindSeq(state.rooms, LAMBDA r : r.id = ds.roomId)
    IN  IF found = Undefined THEN <<>> ELSE <<found[1].xCm, found[1].yCm>>

\* C4: if a room or placed object was at P at pointer-down, was dragged to
\* another position and released, the undo that follows makes present a state
\* in which it is at P again.
C4_UndoRestoresPreDrag ==
    [][(/\ last.ev = "pointerup"
        /\ last.released # Undefined
        /\ last.released[1].targetType \in {"room", "placed"}
        /\ DraggedPos(history.present, last.released[1])
             # <<last.released[1].roomStartX, last.released[1].roomStartY>>
        /\ last'.ev = "undo")
       => DraggedPos(history'.present, last.released[1])
            = <<last.released[1].roomStartX, last.released[1].roomStartY>>]_vars

\* C1: after N >= 1 recorded updates followed by N undos, present is the
\* present the history started with; after N further redos, present is the
\* state passed to the last recorded update.
C1_HistoryRoundTrip ==
    /\ (pc = "undo" /\ ret.undone = call.n) => history.present = call.h0.present
    /\ (pc = "redo" /\ ret.redone = call.n) => history.present = call.final

\* Two or more updates were recorded on a history that had a past and a
\* future, undone and redone, and the last state differs from the first.
C1_Witness ==
    /\ pc = "redo"
    /\ call.n >= 2
    /\ ret.redone = call.n
    /\ call.h0.past # <<>>
    /\ call.h0.future # <<>>
    /\ call.final # call.h0.present
    /\ history.present = call.final

RoomIdsOf(state) == {r.id : r \in SeqToSet(state.rooms)}

\* C5: after deleteRoom or deleteRooms no room, wall opening or placed object
\* of the resulting document carries a deleted room id, and every opening and
\* placed object that remains refers to a room of the document.
C5_CascadeDelete ==
    last.ev \in {"deleteRoom", "deleteSelected", "keyDelete"} =>
      LET state == history.present
      IN  /\ RoomIdsOf(state) \cap last.deleted = {}
          /\ RefsTo(state, last.deleted) = 0
          /\ \A o \in SeqToSet(state.wallOpenings) : o.roomId \in RoomIdsOf(state)
          /\ \A p \in SeqToSet(state.placedObjects) : p.roomId \in RoomIdsOf(state)

\* A room with openings or objects was deleted and another room's opening
\* is still there.
C5_Witness ==
    /\ last.ev = "keyDelete"
    /\ last.deleted # {}
    /\ last.refsBefore >= 2
    /\ history.present.rooms # <<>>
    /\ history.present.wallOpenings # <<>>

(***************************************************************************)
(* Properties of the pointer sessions                                      *)
(***************************************************************************)
ReleaseEvents == {"pointerup", "pointercancel", "pointerleave"}

\* C11: pointer-cancel and pointer-leave are handled as pointer-up is: each of
\* the three events leaves dragState and the current snap result null; if a
\* room, object or resize session was active it pushes present on past as the
\* checkpoint, and otherwise it leaves the history as it is.
C11_ReleaseClearsSession ==
    [][last'.ev \in ReleaseEvents =>
         /\ dragState' = Undefined
         /\ currentSnapResult' = Undefined
         /\ ActiveSession(dragState) =>
              /\ history'.past = Append(history.past, history.present)
              /\ history'.present = history.present
         /\ ~ActiveSession(dragState) => history' = history
         /\ [history |-> history', dragState |-> dragState',
             currentSnapResult |-> currentSnapResult']
              = handleSvgPointerUp(history, history.present, dragState)]_vars

\* The pointer left the canvas during an object drag that showed a snap
\* guide: the session is gone and the checkpoint is on past.
C11_Witness ==
    /\ last.ev = "pointerleave"
    /\ last.released # Undefined
    /\ last.released[1].targetType = "placed"
    /\ dragState = Undefined
    /\ currentSnapResult = Undefined
    /\ history.past # <<>>
    /\ history.past[Len(history.past)] = history.present
    /\ DraggedPos(history.present, last.released[1])
         # <<last.released[1].roomStartX, last.released[1].roomStartY>>

\* The session a drag descriptor stands for.
SessionKind(drag) ==
    IF drag = Undefined THEN "none"
    ELSE IF drag[1].roomId = "__pan__" THEN "pan"
    ELSE drag[1].targetType

HitsRoom(state, id) == id # Undefined /\ getRoomById(state, id[1]) # Undefined

HitsPlaced(state, id) ==
    id # Undefined /\ \E p \in SeqToSet(state.placedObjects) : p.id = id[1]

ShiftClickOnRoomBody(state, e) ==
    /\ e.shiftKey
    /\ HitsRoom(state, e.roomId)
    /\ ~(e.resizeHandle # Undefined /\ HitsRoom(state, e.resizeRoomId))
    /\ ~HitsPlaced(state, e.placedId)

\* C12: a pointer-down in select mode on a resize handle of an existing room
\* starts a resize session of that room with that handle; otherwise on an
\* existing placed object it starts a drag of that object and selects it;
\* otherwise on a room body it starts a drag of that room; otherwise it starts
\* a pan.  A session is started by every pointer-down except a shift-click on
\* a room body.
C12_HitTestPriority ==
    [][last'.ev = "pointerdown" =>
         LET e == last'.e
             state == history.present
             ds == dragState'
         IN  /\ IF e.resizeHandle # Undefined /\ HitsRoom(state, e.resizeRoomId)
                THEN /\ SessionKind(ds) = "resize"
                     /\ ds[1].roomId = e.resizeRoomId[1]
                     /\ ds[1].resizeHandle = e.resizeHandle[1]
                ELSE IF HitsPlaced(state, e.placedId)
                THEN /\ SessionKind(ds) = "placed"
                     /\ ds[1].roomId = e.placedId[1]
                     /\ history'.present.selectedObjectId = e.placedId
                ELSE IF HitsRoom(state, e.roomId)
                THEN \/ SessionKind(ds) = "room" /\ ds[1].roomId = e.roomId[1]
                     \/ e.shiftKey /\ ds = Undefined
                ELSE e.roomId = Undefined => SessionKind(ds) = "pan"
             /\ ds = Undefined => ShiftClickOnRoomBody(state, e)]_vars

\* A pointer-down on a resize handle, which carries the room id as well, has
\* started a resize session and not a room drag.
C12_Witness ==
    /\ last.ev = "pointerdown"
    /\ last.e.resizeHandle = Some("se")
    /\ last.e.roomId = Some("r2")
    /\ SessionKind(dragState) = "resize"
    /\ dragState[1].roomId = "r2"

\* The rooms of a multi-room drag that are in the document, with the
\* displacement of each from its captured start.
RoomDisplacement(state, id, startXCm, startYCm) ==
    LET r == getRoomById(state, id)[1]
    IN  <<r.xCm - startXCm, r.yCm - startYCm>>

MultiDragMoved ==
    /\ last.ev = "pointermove"
    /\ dragState # Undefined
    /\ dragState[1].targetType = "room"
    /\ Len(dragState[1].multiDragRooms) > 1
    /\ getRoomById(history.present, dragState[1].roomId) # Undefined
    /\ \A i \in 1..Len(dragState[1].multiDragRooms) :
         getRoomById(history.present, dragState[1].multiDragRooms[i].id) # Undefined

\* C13: after a pointer-move of a multi-room drag every selected room is
\* displaced from its captured start by the displacement of the pressed room
\* from its captured start.
C13_MultiDragSameDelta ==
    MultiDragMoved =>
      LET ds == dragState[1]
          primary == RoomDisplacement(history.present, ds.roomId,
                                      ds.roomStartX, ds.roomStartY)
      IN  \A i \in 1..Len(ds.multiDragRooms) :
            RoomDisplacement(history.present, ds.multiDragRooms[i].id,
                             ds.multiDragRooms[i].startXCm,
                             ds.multiDragRooms[i].startYCm) = primary

\* What the handler does instead: every selected room is at its captured
\* start plus the displacement of the pressed room, clamped at 0 on each axis
\* by itself.
MultiDragClampedPerRoom ==
    MultiDragMoved =>
      LET ds == dragState[1]
          primary == RoomDisplacement(history.present, ds.roomId,
                                      ds.roomStartX, ds.roomStartY)
      IN  \A i \in 1..Len(ds.multiDragRooms) :
            LET m == ds.multiDragRooms[i]
                r == getRoomById(history.present, m.id)[1]
            IN  /\ r.xCm = Max(0, m.startXCm + primary[1])
                /\ r.yCm = Max(0, m.startYCm + primary[2])

\* C14: a shift + pointer-down on a room body toggles the room in the
\* selection, leaves dragState null and past and future as they are; while
\* dragState is null a pointer-move changes nothing and a pointer-up, cancel
\* or leave leaves the history as it is.
C14_ShiftClickStartsNoDrag ==
    [][/\ (last'.ev = "pointerdown" /\ ShiftClickOnRoomBody(history.present, last'.e)) =>
            LET id == last'.e.roomId[1]
                before == SeqToSet(history.present.selectedRoomIds)
                after == SeqToSet(history'.present.selectedRoomIds)
            IN  /\ dragState' = Undefined
                /\ (id \in after) <=> (id \notin before)
                /\ after \ {id} = before \ {id}
                /\ history'.present.rooms = history.present.rooms
                /\ history'.past = history.past
                /\ history'.future = history.future
       /\ (dragState = Undefined /\ last'.ev = "pointermove") =>
            /\ history' = history
            /\ currentSnapResult' = currentSnapResult
            /\ dragState' = Undefined
       /\ (dragState = Undefined /\ last'.ev \in ReleaseEvents) =>
            history' = history]_vars

\* A shift-click took r2 out of the selection r1, r2 and the pointer went up:
\* no session was released and nothing was recorded.
C14_Witness ==
    /\ last.ev = "pointerup"
    /\ last.released = Undefined
    /\ last.sessions = 1
    /\ history.present.selectedRoomIds = <<"r1">>
    /\ history.past = <<>>

\* The entity a drag descriptor names, or what the handler looks up with
\* it, is not in the document.
TargetMissing(state, ds) ==
    LET placed == FindSeq(state.placedObjects, LAMBDA p : p.id = ds.roomId)
    IN  \/ /\ ds.targetType = "placed"
           /\ \/ placed = Undefined
              \/ FindSeq(state.objectDefs, LAMBDA d : d.id = placed[1].defId) = Undefined
              \/ getRoomById(state, placed[1].roomId) = Undefined
        \/ /\ ds.targetType \in {"room", "resize"}
           /\ getRoomById(state, ds.roomId) = Undefined

C18_WitnessRoomUndone ==
    /\ last.ev = "pointermove"
    /\ last.released # Undefined
    /\ last.released[1].targetType = "room"
    /\ TargetMissing(history.present, last.released[1])
    /\ history.future # <<>>

C18_WitnessResize ==
    /\ last.ev = "pointermove"
    /\ last.released # Undefined
    /\ last.released[1].targetType = "resize"
    /\ TargetMissing(history.present, last.released[1])

(***************************************************************************)
(* Properties of the resize rectangle                                      *)
(***************************************************************************)
ResizeDone == pc = "done" /\ call.fn = "resize"

ResizeInitial == call.ds.initialRoom[1]

MovesX(handle) == handleIncludes(handle, "e") \/ handleIncludes(handle, "w")

MovesY(handle) == handleIncludes(handle, "n") \/ handleIncludes(handle, "s")

\* C15 as stated: for every handle, initial room size and pointer displacement
\* the width and the height passed to resizeRoom are at least 10 cm.
C15_ResizeFloorAsStated ==
    ResizeDone => ret.rect.newW >= 10 /\ ret.rect.newH >= 10

\* C15 amended: the width passed to resizeRoom is at least 10 cm when the
\* handle moves the east or west edge or the initial width is at least 10 cm,
\* and the same for the height with the north and south edges; on an axis the
\* handle does not move the initial position and size are passed as they are.
C15_ResizeFloorOnMovedAxis ==
    ResizeDone =>
      LET handle == call.ds.resizeHandle
      IN  /\ (MovesX(handle) \/ ResizeInitial.widthCm >= 10) => ret.rect.newW >= 10
          /\ (MovesY(handle) \/ ResizeInitial.heightCm >= 10) => ret.rect.newH >= 10
          /\ ~MovesX(handle) =>
               /\ ret.rect.newW = ResizeInitial.widthCm
               /\ ret.rect.newX = ResizeInitial.xCm
          /\ ~MovesY(handle) =>
               /\ ret.rect.newH = ResizeInitial.heightCm
               /\ ret.rect.newY = ResizeInitial.yCm

\* The west handle of a 60 cm wide room was dragged far past the east edge:
\* the clamp left 10 cm.
C15_Witness ==
    /\ ResizeDone
    /\ call.ds.resizeHandle = "nw"
    /\ ResizeInitial.widthCm = 60
    /\ ret.pos.xCm - svgPixelsToCm(call.ds.startX, 0).xCm > 50
    /\ ret.rect.newW = 10
    /\ ret.rect.newX = ResizeInitial.xCm + 50

(***************************************************************************)
(* Properties of the shared walls                                          *)
(***************************************************************************)
WallsDone == pc = "done" /\ call.fn = "walls"

\* The pairs of rooms of the layout that are adjacent, with the side of the
\* first that faces the second.
AdjacentPairs ==
    {t \in SeqToSet(call.state.rooms) \X SeqToSet(call.state.rooms) \X Sides :
        isAdjacent(call.state, t[1], t[2], t[3])}

OwnsOpenings(room, side) == getOpeningsForWall(call.state, room.id, side) # <<>>

Renders(room, side) == <<room.id, side>> \in ret.walls

\* C16: for every two adjacent rooms with no opening on the wall they share,
\* exactly one of the two draws its wall on that side.
C16_SharedWallRenderedOnce ==
    WallsDone =>
      \A t \in AdjacentPairs :
        (~OwnsOpenings(t[1], t[3]) /\ ~OwnsOpenings(t[2], OppositeSide(t[3]))) =>
          (Renders(t[1], t[3]) <=> ~Renders(t[2], OppositeSide(t[3])))

\* C17: for every two adjacent rooms, if one of them alone owns openings on
\* the shared wall, that room draws the wall and the other does not; if both
\* own openings, each draws it exactly if the id tie-break says so.
C17_OpeningOwnerRenders ==
    WallsDone =>
      \A t \in AdjacentPairs :
        LET room == t[1]
            other == t[2]
            side == t[3]
            back == OppositeSide(side)
        IN  /\ (OwnsOpenings(room, side) /\ ~OwnsOpenings(other, back)) =>
                 Renders(room, side) /\ ~Renders(other, back)
            /\ (OwnsOpenings(room, side) /\ OwnsOpenings(other, back)) =>
                 /\ Renders(room, side) <=> shouldRenderSharedWall(room, other)
                 /\ Renders(other, back) <=> shouldRenderSharedWall(other, room)

\* Two rooms are each the neighbour the resolver finds for the other.
MutualPair(t) ==
    /\ findAdjacentRoom(call.state, t[1], t[3]) # Undefined
    /\ findAdjacentRoom(call.state, t[1], t[3])[1].otherRoom = t[2]
    /\ findAdjacentRoom(call.state, t[2], OppositeSide(t[3])) # Undefined
    /\ findAdjacentRoom(call.state, t[2], OppositeSide(t[3]))[1].otherRoom = t[1]

\* What both editors do: a wall without openings between two rooms that find
\* each other is drawn by exactly one of them.
SharedWallOnceForMutualPairs ==
    WallsDone =>
      \A t \in AdjacentPairs :
        (/\ MutualPair(t)
         /\ ~OwnsOpenings(t[1], t[3])
         /\ ~OwnsOpenings(t[2], OppositeSide(t[3]))) =>
          (Renders(t[1], t[3]) <=> ~Renders(t[2], OppositeSide(t[3])))

\* What the editor of next.config.ts does and page.tsx does not: between two
\* rooms that find each other the only owner of openings draws the wall.
OwnerRendersForMutualPairs ==
    (WallsDone /\ ret.fn = "next.config.ts") =>
      \A t \in AdjacentPairs :
        (/\ MutualPair(t)
         /\ OwnsOpenings(t[1], t[3])
         /\ ~OwnsOpenings(t[2], OppositeSide(t[3]))) =>
          Renders(t[1], t[3]) /\ ~Renders(t[2], OppositeSide(t[3]))

(***************************************************************************)
(* Properties of loading and importing                                     *)
(***************************************************************************)
\* C19: a failed import leaves past, present and future exactly as they were
\* and shows exactly one error; no other step shows an error.
C19_FailedImportAllOrNothing ==
    [][IF last'.ev = "importFailed"
       THEN /\ history' = history
            /\ Len(ret'.alerts) = Len(ret.alerts) + 1
       ELSE ret' = ret]_vars

C19_Witness ==
    /\ last.ev = "importFailed"
    /\ history.past # <<>>
    /\ history.future # <<>>
    /\ Len(ret.alerts) = 1

HasSelectedRoomIds(doc) == doc.selectedRoomIds[1] = "value"

HasLegacySelectedRoomId(doc) ==
    doc.selectedRoomId[1] = "value" /\ doc.selectedRoomId[2] # ""

\* C20: after the load on mount and after a successful import, the selection
\* is the document's selectedRoomIds if it has one; otherwise the one-element
\* list with its non-empty legacy selectedRoomId; otherwise the empty list.
C20_LegacySelectionMigrated ==
    [][last'.ev \in {"load", "imported"} =>
         LET doc == call.result.value[1]
         IN  history'.present.selectedRoomIds =
               IF HasSelectedRoomIds(doc) THEN doc.selectedRoomIds[2]
               ELSE IF HasLegacySelectedRoomId(doc) THEN <<doc.selectedRoomId[2]>>
               ELSE <<>>]_vars

C20_Witness ==
    /\ last.ev = "imported"
    /\ ~HasSelectedRoomIds(call.result.value[1])
    /\ HasLegacySelectedRoomId(call.result.value[1])
    /\ history.present.selectedRoomIds = <<"r2">>

C20_WitnessLoad ==
    /\ last.ev = "load"
    /\ ~HasSelectedRoomIds(call.result.value[1])
    /\ HasLegacySelectedRoomId(call.result.value[1])
    /\ history.present.selectedRoomIds = <<"r2">>

C20_WitnessKept ==
    /\ last.ev = "imported"
    /\ call.result.value[1].selectedRoomIds = JsonValue(<<>>)
    /\ HasLegacySelectedRoomId(call.result.value[1])
    /\ history.present.selectedRoomIds = <<>>

(***************************************************************************)
(* Order of the neighbours and of the rules in calculateSnap               *)
(***************************************************************************)
SnapOthers == SelectSeq(call.allRooms, LAMBDA r : r.id # call.movingRoom.id)

NeighbourOuterOf(r) == outerBoundsCm(r, call.globalWallThicknessCm, r.xCm, r.yCm)

NeighbourInnerOf(r) == innerBoundsCm(r, r.xCm, r.yCm)

\* A wall-overlap rule of neighbour r matches at the target.
OverlapsX(r) ==
    \/ Abs(OuterAtTarget.right - NeighbourInnerOf(r).left) <= WALL_SNAP_TOLERANCE_CM
    \/ Abs(OuterAtTarget.left - NeighbourInnerOf(r).right) <= WALL_SNAP_TOLERANCE_CM

OverlapsY(r) ==
    \/ Abs(OuterAtTarget.bottom - NeighbourInnerOf(r).top) <= WALL_SNAP_TOLERANCE_CM
    \/ Abs(OuterAtTarget.top - NeighbourInnerOf(r).bottom) <= WALL_SNAP_TOLERANCE_CM

\* The distances of the alignment rules of neighbour r that match.
AlignDistsX(r) ==
    {d \in {Abs(OuterAtTarget.left - NeighbourOuterOf(r).left),
            Abs(OuterAtTarget.right - NeighbourOuterOf(r).right)} :
        d <= SNAP_TOLERANCE_CM}

AlignDistsY(r) ==
    {d \in {Abs(OuterAtTarget.top - NeighbourOuterOf(r).top),
            Abs(OuterAtTarget.bottom - NeighbourOuterOf(r).bottom)} :
        d <= SNAP_TOLERANCE_CM}

MatchesX(r) == OverlapsX(r) \/ AlignDistsX(r) # {}

MatchesY(r) == OverlapsY(r) \/ AlignDistsY(r) # {}

\* What calculateSnap returns when r is the only neighbour.
SnapAlone(r) ==
    calculateSnap(call.movingRoom, <<r>>, call.targetXCm, call.targetYCm,
                  call.globalWallThicknessCm)

\* C23: on each axis calculateSnap returns the snap of the first room of the
\* list that matches any rule of that axis, whatever the later rooms offer,
\* and the target when no room matches.
C23_FirstMatchPerAxis ==
    RoomSnapDone =>
      /\ LET first == FindSeq(SnapOthers, MatchesX)
         IN  IF first = Undefined
             THEN ~ret.snappedX /\ ret.xCm = call.targetXCm
             ELSE ret.snappedX /\ ret.xCm = SnapAlone(first[1]).xCm
      /\ LET first == FindSeq(SnapOthers, MatchesY)
         IN  IF first = Undefined
             THEN ~ret.snappedY /\ ret.yCm = call.targetYCm
             ELSE ret.snappedY /\ ret.yCm = SnapAlone(first[1]).yCm

\* The first room took the X axis although the second room, alone, would have
\* moved the room less.
C23_Witness ==
    /\ RoomSnapDone
    /\ Len(SnapOthers) >= 2
    /\ MatchesX(SnapOthers[1])
    /\ MatchesX(SnapOthers[2])
    /\ ret.xCm = SnapAlone(SnapOthers[1]).xCm
    /\ Abs(SnapAlone(SnapOthers[2]).xCm - call.targetXCm)
         < Abs(ret.xCm - call.targetXCm)

WallOverlapRules ==
    {"outerRightToInnerLeft", "outerLeftToInnerRight",
     "outerBottomToInnerTop", "outerTopToInnerBottom"}

\* C24: on each axis, when a wall-overlap rule of the neighbour that is used
\* matches, the result is a wall-overlap snap (an outer edge of the moving
\* room on the facing inner edge of the neighbour); an alignment of the outer
\* edges is returned only when no wall-overlap rule of that neighbour matches.
C24_WallOverlapBeforeAlignment ==
    RoomSnapDone =>
      /\ ret.snappedX =>
           LET r == CallNeighbour(ret.xOther)
           IN  IF OverlapsX(r)
               THEN /\ ret.xRule \in WallOverlapRules
                    /\ \/ OuterAtResult.right = NeighbourInnerOf(r).left
                       \/ OuterAtResult.left = NeighbourInnerOf(r).right
               ELSE /\ AlignDistsX(r) # {}
                    /\ \/ OuterAtResult.left = NeighbourOuterOf(r).left
                       \/ OuterAtResult.right = NeighbourOuterOf(r).right
      /\ ret.snappedY =>
           LET r == CallNeighbour(ret.yOther)
           IN  IF OverlapsY(r)
               THEN /\ ret.yRule \in WallOverlapRules
                    /\ \/ OuterAtResult.bottom = NeighbourInnerOf(r).top
                       \/ OuterAtResult.top = NeighbourInnerOf(r).bottom
               ELSE /\ AlignDistsY(r) # {}
                    /\ \/ OuterAtResult.top = NeighbourOuterOf(r).top
                       \/ OuterAtResult.bottom = NeighbourOuterOf(r).bottom

\* A wall-overlap snap on X was returned although an alignment of the same
\* neighbour was nearer to the target.
C24_Witness ==
    /\ RoomSnapDone
    /\ ret.snappedX
    /\ ret.xRule \in WallOverlapRules
    /\ \E d \in AlignDistsX(CallNeighbour(ret.xOther)) :
         d < Abs(ret.xCm - call.targetXCm)

\* The same on Y, with an alignment at distance 0.
C24_WitnessY ==
    /\ RoomSnapDone
    /\ ret.snappedY
    /\ ret.yRule \in WallOverlapRules
    /\ 0 \in AlignDistsY(CallNeighbour(ret.yOther))
    /\ ret.yCm # call.targetYCm

(***************************************************************************)
(* The snap engine and the adjacency resolver                              *)
(***************************************************************************)
\* The moving room at the position calculateSnap returned, as the drag
\* handler commits it.
SnappedRoom ==
    [call.movingRoom EXCEPT !.xCm = constrainRoomPosition(ret.xCm, ret.yCm).xCm,
                            !.yCm = constrainRoomPosition(ret.xCm, ret.yCm).yCm]

CommittedState ==
    [emptyAppState EXCEPT !.rooms = Append(SnapOthers, SnappedRoom),
                          !.globalWallThicknessCm = call.globalWallThicknessCm]

\* The X axis snapped the moving room's outer right on the inner left of a
\* neighbour whose vertical span overlaps the room's, and the clamp to
\* non-negative coordinates did not move the room.
SnappedEastOnto(r) ==
    /\ RoomSnapDone
    /\ ret.xRule = "outerRightToInnerLeft"
    /\ ret.xOther = r.id
    /\ ret.xCm >= 0
    /\ ret.yCm >= 0
    /\ spansOverlap(SnappedRoom, r, "east")

\* C28: after a wall-overlap snap of the moving room's outer right on the
\* inner left of neighbour N with overlapping vertical spans, the adjacency
\* resolver finds N on the east side of the committed room, facing west.
C28_SnappedRoomsAdjacent ==
    RoomSnapDone =>
    \A i \in 1..Len(call.allRooms) :
       SnappedEastOnto(call.allRooms[i]) =>
          findAdjacentRoom(CommittedState, SnappedRoom, "east")
            = Some([otherRoom |-> call.allRooms[i], otherWall |-> "west"])

\* What the two rules give together: the outer edges of the two rooms are
\* apart by the neighbour's west wall, so the resolver finds the neighbour
\* exactly when that wall has no thickness.
SnappedRoomsApartByWall ==
    RoomSnapDone =>
    \A i \in 1..Len(call.allRooms) :
       SnappedEastOnto(call.allRooms[i]) =>
          LET r == call.allRooms[i]
              west == wallSide(r, "west", call.globalWallThicknessCm)
          IN  /\ outerEdge(r, "west", call.globalWallThicknessCm)
                   = outerEdge(SnappedRoom, "east", call.globalWallThicknessCm) - west
              /\ isAdjacent(CommittedState, SnappedRoom, r, "east") <=> west = 0

\* ---------------------------------------------------------------------
\* Keys typed into form fields
\* ---------------------------------------------------------------------

\* C21: a key that goes down while the target is an input or a textarea
\* changes neither the history nor the tool nor the measure points, whatever
\* the key and its modifiers.
C21_KeysInInputsIgnored ==
    [][last'.ev = "keyInInput" => UNCHANGED <<history, toolMode, measurePoints>>]_vars

\* A key went down in a form field while every shortcut had something to do:
\* an edit to undo, a selected room and a selected object, the measure tool
\* with a point set.
C21_Witness ==
    /\ last.ev = "keyInInput"
    /\ history.past # <<>>
    /\ history.present.selectedRoomIds # <<>>
    /\ history.present.selectedObjectId # Undefined
    /\ toolMode = "measure"
    /\ measurePoints # <<>>

\* ---------------------------------------------------------------------
\* Delete and Backspace
\* ---------------------------------------------------------------------

\* C29: Delete or Backspace outside a form field.  With a placed object
\* selected only that object goes and the rooms and their selection stay;
\* otherwise the selected rooms go; with nothing selected the history is
\* unchanged.  A deletion adds exactly one checkpoint, the document the key
\* found, and empties the redo stack.
C29_DeletePriority ==
    [][last'.ev = "keyDelete" =>
         LET s == history.present
             t == history'.present
             checkpoint == /\ history'.past = Append(history.past, s)
                           /\ history'.future = <<>>
         IN  IF s.selectedObjectId # Undefined
             THEN /\ checkpoint
                  /\ SeqToSet(t.placedObjects)
                       = {p \in SeqToSet(s.placedObjects) : p.id # s.selectedObjectId[1]}
                  /\ t.rooms = s.rooms
                  /\ t.selectedRoomIds = s.selectedRoomIds
                  /\ t.wallOpenings = s.wallOpenings
                  /\ t.objectDefs = s.objectDefs
             ELSE IF s.selectedRoomIds # <<>>
             THEN /\ checkpoint
                  /\ SeqToSet(t.rooms)
                       = {r \in SeqToSet(s.rooms) : r.id \notin SeqToSet(s.selectedRoomIds)}
                  /\ t.objectDefs = s.objectDefs
             ELSE UNCHANGED history]_vars

\* Delete went down with an object and a room selected: the object is gone,
\* the room and its selection are still there.
C29_Witness ==
    /\ last.ev = "keyDelete"
    /\ history.past # <<>>
    /\ LET s == history.past[Len(history.past)]
       IN  /\ s.selectedObjectId # Undefined
           /\ s.selectedRoomIds # <<>>
           /\ \E p \in SeqToSet(s.placedObjects) : p.id = s.selectedObjectId[1]
           /\ history.present.rooms = s.rooms
           /\ history.present.selectedRoomIds = s.selectedRoomIds
           /\ Len(history.present.placedObjects) = Len(s.placedObjects) - 1

\* Delete went down with rooms selected and no object selected.
C29_WitnessRooms ==
    /\ last.ev = "keyDelete"
    /\ history.past # <<>>
    /\ LET s == history.past[Len(history.past)]
       IN  /\ s.selectedObjectId = Undefined
           /\ s.selectedRoomIds # <<>>
           /\ Len(history.present.rooms) < Len(s.rooms)

\* Delete went down with nothing selected while there was an edit to undo.
C29_WitnessNothing ==
    /\ last.ev = "keyDelete"
    /\ history.past # <<>>
    /\ history.present.selectedObjectId = Undefined
    /\ history.present.selectedRoomIds = <<>>
    /\ history.present.rooms # <<>>
    /\ history.present.placedObjects # <<>>

\* ---------------------------------------------------------------------
\* Recorded changes and the redo stack
\* ---------------------------------------------------------------------

\* The steps that record: a Delete with something selected, an arrow key
\* with rooms selected, the release of a session that is not a pan.
RecordingStep ==
    \/ /\ last'.ev = "keyDelete"
       /\ \/ history.present.selectedObjectId # Undefined
          \/ history.present.selectedRoomIds # <<>>
    \/ /\ last'.ev = "keyArrow"
       /\ history.present.selectedRoomIds # <<>>
    \/ /\ last'.ev = "pointerup"
       /\ dragState # Undefined
       /\ dragState[1].roomId # "__pan__"

\* C22: after a recorded change (updateState with recordInHistory, or the
\* commit of a drag) the redo stack is empty and redo changes nothing; the
\* stack only becomes non-empty again by an undo shortcut.
C22_RecordedChangeClearsRedo ==
    [][/\ RecordingStep =>
            /\ history'.future = <<>>
            /\ handleRedo(history') = history'
            /\ Len(history'.past) = Len(history.past) + 1
       /\ (history.future = <<>> /\ history'.future # <<>>) =>
            /\ last'.ev = "key"
            /\ history' = handleUndo(history)]_vars

\* A key recorded a change while there was something to redo.
C22_Witness ==
    /\ last.ev \in {"keyDelete", "keyArrow"}
    /\ last.futureBefore > 0
    /\ history.future = <<>>
    /\ history.past # <<>>

\* A room drag was committed while there was something to redo.
C22_WitnessDrag ==
    /\ last.ev = "pointerup"
    /\ last.released # Undefined
    /\ last.released[1].roomId # "__pan__"
    /\ last.futureBefore > 0
    /\ history.future = <<>>

\* ---------------------------------------------------------------------
\* The measure tool
\* ---------------------------------------------------------------------

\* C30: with the measure tool a pointer-down starts no session and leaves
\* the history alone; there are never more than two measure points and a
\* click takes their number from 0 to 1, from 1 to 2 and from 2 to 1; the
\* M key, Escape with the measure tool and the two tool buttons empty the
\* points; nothing else changes them.
C30_MeasureState ==
    /\ [](Len(measurePoints) <= 2)
    /\ [][/\ (last'.ev = "pointerdown" /\ toolMode = "measure") =>
               /\ UNCHANGED <<history, toolMode>>
               /\ dragState' = Undefined
               /\ Len(measurePoints') = IF Len(measurePoints) = 2 THEN 1
                                         ELSE Len(measurePoints) + 1
               /\ Len(measurePoints) = 1 => measurePoints'[1] = measurePoints[1]
          /\ last'.ev \in {"keyM", "toolButton"} => measurePoints' = <<>>
          /\ last'.ev = "keyM" => toolMode' # toolMode
          /\ (last'.ev = "keyEscape" /\ toolMode = "measure") =>
               /\ measurePoints' = <<>>
               /\ toolMode' = "select"
          /\ measurePoints' # measurePoints =>
               \/ last'.ev = "pointerdown" /\ toolMode = "measure"
               \/ last'.ev \in {"keyM", "toolButton"}
               \/ last'.ev = "keyEscape" /\ toolMode = "measure"]_vars

\* A third click with the measure tool: the two points of the finished
\* measurement gave way to the first point of a new one.
C30_Witness ==
    /\ last.ev = "pointerdown"
    /\ toolMode = "measure"
    /\ last.pointsBefore = 2
    /\ Len(measurePoints) = 1
    /\ dragState = Undefined

\* Escape with the measure tool: the select tool is back and the selection
\* was not cleared, as Escape with the select tool would have done.
C30_WitnessEscape ==
    /\ last.ev = "keyEscape"
    /\ toolMode = "select"
    /\ measurePoints = <<>>
    /\ history.present.selectedRoomIds # <<>>

\* ---------------------------------------------------------------------
\* The viewport and the history
\* ---------------------------------------------------------------------

Viewport(state) == <<state.panX, state.panY, state.zoom>>

PanSession(drag) == drag # Undefined /\ drag[1].roomId = "__pan__"

\* The steps that set the viewport: a pointer move or a release of a pan
\* session, the wheel, the zoom buttons, the view reset.
ViewportStep ==
    \/ last'.ev \in {"wheel", "zoomButton", "resetView"}
    \/ last'.ev \in {"pointermove", "pointerup"} /\ PanSession(dragState)

C25_WitnessPan ==
    /\ last.ev = "pointermove"
    /\ PanSession(last.released)
    /\ history.present.panX # 0
    /\ history.future # <<>>

\* C26: undo and redo change neither panX nor panY nor zoom.
C26_UndoRedoKeepViewport ==
    [][last'.ev = "key" => Viewport(history'.present) = Viewport(history.present)]_vars

\* What undo does to the view: with something to undo, the viewport after
\* the undo is the one of the checkpoint, whatever the user set since.
UndoRestoresViewportOfCheckpoint ==
    [][(last'.ev = "key" /\ history' = handleUndo(history) /\ history.past # <<>>) =>
         Viewport(history'.present) = Viewport(history.past[Len(history.past)])]_vars

\* ---------------------------------------------------------------------
\* Rooms stay at non-negative positions
\* ---------------------------------------------------------------------

NonNegativeRooms(state) ==
    \A r \in SeqToSet(state.rooms) : r.xCm >= 0 /\ r.yCm >= 0

\* C27: starting from rooms at non-negative positions, room drags (one room
\* or several, snapped or not), arrow nudges and handle resizes keep every
\* room at xCm >= 0 and yCm >= 0, in the present document and in every
\* checkpoint.
C27_RoomsNonNegative ==
    /\ NonNegativeRooms(history.present)
    /\ \A i \in 1..Len(history.past) : NonNegativeRooms(history.past[i])
    /\ \A i \in 1..Len(history.future) : NonNegativeRooms(history.future[i])

\* Two rooms are dragged to the left together: the second room moved, the
\* first one was held at x = 0.
C27_Witness ==
    /\ last.ev = "pointermove"
    /\ last.released # Undefined
    /\ last.released[1].targetType = "room"
    /\ Len(last.released[1].multiDragRooms) = 2
    /\ getRoomById(history.present, "r1")[1].xCm = 0
    /\ getRoomById(history.present, "r2")[1].xCm < DragRoom2.xCm

\* Arrow-left with both rooms selected: the second room moved, the first
\* one was held at x = 0.
C27_WitnessNudge ==
    /\ last.ev = "keyArrow"
    /\ Len(history.present.selectedRoomIds) = 2
    /\ getRoomById(history.present, "r1")[1].xCm = 0
    /\ getRoomById(history.present, "r2")[1].xCm < DragRoom2.xCm

\* The west or north handle of the first room is dragged past the origin:
\* the room grew and was held at 0.
C27_WitnessResize ==
    /\ last.ev = "pointermove"
    /\ last.released # Undefined
    /\ last.released[1].targetType = "resize"
    /\ last.released[1].roomId = "r1"
    /\ LET r == getRoomById(history.present, "r1")[1]
       IN  /\ r.xCm = 0
           /\ r.yCm = 0
           /\ r.widthCm > DragRoom1.widthCm \/ r.heightCm > DragRoom1.heightCm
           /\ last.released[1].resizeHandle \in {"w", "n", "nw"}

\* ---------------------------------------------------------------------
\* How far a snap moves, and what a result without a snap looks like
\* ---------------------------------------------------------------------

WallCandidates(target, size, lo, hi) ==
    Within({[pos |-> lo, dist |-> Abs(target - lo)],
            [pos |-> hi - size, dist |-> Abs(target + size - hi)]},
           call.toleranceCm)

ObjectCandidates(cands, target, size, lo, hi) ==
    {c \in cands : c.dist <= OBJECT_TO_OBJECT_SNAP_TOLERANCE_CM}
      \ WallCandidates(target, size, lo, hi)

\* The result of one axis of the object engine is the target, or the position
\* of a wall candidate within toleranceCm, or the position of an object
\* candidate within 15 cm, at that candidate's distance from the target.
ObjectSnapBounded(cands, target, size, lo, hi, cm, snapped) ==
    IF ~snapped THEN cm = target
    ELSE \/ \E c \in WallCandidates(target, size, lo, hi) :
              /\ c.pos = cm
              /\ Abs(cm - target) = c.dist
              /\ Abs(cm - target) <= call.toleranceCm
         \/ \E c \in ObjectCandidates(cands, target, size, lo, hi) :
              /\ c.pos = cm
              /\ Abs(cm - target) = c.dist
              /\ Abs(cm - target) <= OBJECT_TO_OBJECT_SNAP_TOLERANCE_CM

\* C34: calculateSnap returns on each axis a coordinate at most 15 cm from
\* the target, and at most 2 cm when an alignment rule fired;
\* calculatePlacedObjectSnap returns a coordinate at most toleranceCm from
\* the target for a wall snap and at most 15 cm for an object snap.
C34_SnapDisplacementBounded ==
    /\ RoomSnapDone =>
         /\ Abs(ret.xCm - call.targetXCm) <= WALL_SNAP_TOLERANCE_CM
         /\ Abs(ret.yCm - call.targetYCm) <= WALL_SNAP_TOLERANCE_CM
         /\ (ret.snappedX /\ ret.xRule \notin WallOverlapRules) =>
              Abs(ret.xCm - call.targetXCm) <= SNAP_TOLERANCE_CM
         /\ (ret.snappedY /\ ret.yRule \notin WallOverlapRules) =>
              Abs(ret.yCm - call.targetYCm) <= SNAP_TOLERANCE_CM
    /\ ObjectSnapDone =>
         /\ ObjectSnapBounded(ObjCandidatesX, call.targetXCm, call.objWidthCm,
                               call.room.xCm, call.room.xCm + call.room.widthCm,
                               ret.xCm, ret.snappedX)
         /\ ObjectSnapBounded(ObjCandidatesY, call.targetYCm, call.objHeightCm,
                               call.room.yCm, call.room.yCm + call.room.heightCm,
                               ret.yCm, ret.snappedY)

\* A wall-overlap snap that moved the room by the whole tolerance.
C34_Witness ==
    /\ RoomSnapDone
    /\ ret.snappedX
    /\ ret.xRule \in WallOverlapRules
    /\ Abs(ret.xCm - call.targetXCm) = WALL_SNAP_TOLERANCE_CM

\* An alignment snap that moved the room by the whole alignment tolerance.
C34_WitnessAlign ==
    /\ RoomSnapDone
    /\ ret.snappedX
    /\ ret.xRule \notin WallOverlapRules
    /\ Abs(ret.xCm - call.targetXCm) = SNAP_TOLERANCE_CM

\* An object snapped to a wall from more than 15 cm away, with another
\* object in the room.
C34_WitnessObjectWall ==
    /\ ObjectSnapDone
    /\ ret.snappedX
    /\ Abs(ret.xCm - call.targetXCm) > OBJECT_TO_OBJECT_SNAP_TOLERANCE_CM
    /\ CallOtherObjects # {}

\* An object snapped to another object.
C34_WitnessObjectObject ==
    /\ ObjectSnapDone
    /\ ret.snappedX
    /\ ret.xCm # call.targetXCm
    /\ WallCandidates(call.targetXCm, call.objWidthCm, call.room.xCm,
                       call.room.xCm + call.room.widthCm) = {}

SnapResultConsistent(r, targetXCm, targetYCm) ==
    /\ r.snappedX <=> r.xGuideCm # Undefined
    /\ r.snappedY <=> r.yGuideCm # Undefined
    /\ ~r.snappedX => r.xCm = targetXCm
    /\ ~r.snappedY => r.yCm = targetYCm

\* C35: in both snap engines an axis is flagged as snapped exactly when its
\* guide is defined, and an axis that is not snapped returns the target
\* coordinate; with no other room (room engine) or no candidate within
\* tolerance on an axis, that axis returns the target with the flag false.
C35_SnapResultConsistent ==
    /\ RoomSnapDone =>
         /\ SnapResultConsistent(ret, call.targetXCm, call.targetYCm)
         /\ (\A i \in 1..Len(SnapOthers) : ~MatchesX(SnapOthers[i])) =>
              ~ret.snappedX /\ ret.xCm = call.targetXCm
         /\ (\A i \in 1..Len(SnapOthers) : ~MatchesY(SnapOthers[i])) =>
              ~ret.snappedY /\ ret.yCm = call.targetYCm
    /\ ObjectSnapDone =>
         /\ SnapResultConsistent(ret, call.targetXCm, call.targetYCm)
         /\ ObjCandidatesX = {} => ~ret.snappedX /\ ret.xCm = call.targetXCm
         /\ ObjCandidatesY = {} => ~ret.snappedY /\ ret.yCm = call.targetYCm

\* The room engine snapped the X axis and left the Y axis at the target.
C35_Witness ==
    /\ RoomSnapDone
    /\ ret.snappedX /\ ret.xGuideCm # Undefined /\ ret.xCm # call.targetXCm
    /\ ~ret.snappedY /\ ret.yGuideCm = Undefined /\ ret.yCm = call.targetYCm

\* The room engine was called with no other room in the list.
C35_WitnessAlone ==
    /\ RoomSnapDone
    /\ SnapOthers = <<>>
    /\ call.allRooms # <<>>
    /\ ret = snapStart(call.targetXCm, call.targetYCm)

\* The object engine found no candidate within tolerance on either axis,
\* with other objects in the room.
C35_WitnessObjectFar ==
    /\ ObjectSnapDone
    /\ CallOtherObjects # {}
    /\ ObjCandidatesX = {} /\ ObjCandidatesY = {}
    /\ ~ret.snappedX /\ ~ret.snappedY

\* The object engine snapped one axis only.
C35_WitnessObject ==
    /\ ObjectSnapDone
    /\ ret.snappedX /\ ret.xGuideCm # Undefined
    /\ ~ret.snappedY /\ ret.yCm = call.targetYCm

\* ---------------------------------------------------------------------
\* Which edges a resize handle moves
\* ---------------------------------------------------------------------

\* C36: in the rectangle passed to resizeRoom a west (north) handle keeps
\* x + width (y + height) of the initial room for every position of the
\* pointer, an east (south) handle keeps x (y), a handle without n and s
\* keeps y and height, and a handle without e and w keeps x and width.
C36_ResizeMovesNamedEdges ==
    ResizeDone =>
      LET handle == call.ds.resizeHandle
          has(c) == handleIncludes(handle, c)
      IN  /\ has("w") => ret.rect.newX + ret.rect.newW
                            = ResizeInitial.xCm + ResizeInitial.widthCm
          /\ has("n") => ret.rect.newY + ret.rect.newH
                            = ResizeInitial.yCm + ResizeInitial.heightCm
          /\ has("e") => ret.rect.newX = ResizeInitial.xCm
          /\ has("s") => ret.rect.newY = ResizeInitial.yCm
          /\ ~MovesY(handle) =>
               /\ ret.rect.newY = ResizeInitial.yCm
               /\ ret.rect.newH = ResizeInitial.heightCm
          /\ ~MovesX(handle) =>
               /\ ret.rect.newX = ResizeInitial.xCm
               /\ ret.rect.newW = ResizeInitial.widthCm

\* The west handle moved the left edge and the right edge stayed.
C36_Witness ==
    /\ ResizeDone
    /\ call.ds.resizeHandle = "w"
    /\ ret.rect.newX # ResizeInitial.xCm
    /\ ret.rect.newW # ResizeInitial.widthCm
    /\ ret.rect.newX + ret.rect.newW = ResizeInitial.xCm + ResizeInitial.widthCm
    /\ ret.rect.newY = ResizeInitial.yCm
    /\ ret.rect.newH = ResizeInitial.heightCm

\* The south-east handle changed both sizes and left the corner in place.
C36_WitnessSouthEast ==
    /\ ResizeDone
    /\ call.ds.resizeHandle = "se"
    /\ ret.rect.newW # ResizeInitial.widthCm
    /\ ret.rect.newH # ResizeInitial.heightCm
    /\ ret.rect.newX = ResizeInitial.xCm
    /\ ret.rect.newY = ResizeInitial.yCm

\* ---------------------------------------------------------------------
\* A resize sample at the place where the pointer went down
\* ---------------------------------------------------------------------

ZeroDisplacement == call.x = call.ds.startX /\ call.y = call.ds.startY

InitialRect ==
    [newX |-> ResizeInitial.xCm, newY |-> ResizeInitial.yCm,
     newW |-> ResizeInitial.widthCm, newH |-> ResizeInitial.heightCm]

\* C37: a pointer-move sample at the pointer-down location gives the
\* initial x, y, width and height of the room, for every handle and size.
C37_ZeroDisplacementIsIdentity ==
    (ResizeDone /\ ZeroDisplacement) => ret.rect = InitialRect

\* What the handler computes at the pointer-down location: the position
\* calculateDragPosition returns is the room's top-left corner, and the
\* displacement the resize branch works with is that corner minus the
\* pointer-down point in cm.
ZeroDisplacementResizesByCornerOffset ==
    (ResizeDone /\ ZeroDisplacement) =>
      /\ ret.pos = [xCm |-> call.ds.roomStartX, yCm |-> call.ds.roomStartY]
      /\ ret.rect = resizeRect(call.ds, call.ds.roomStartX, call.ds.roomStartY)
      /\ (/\ svgPixelsToCm(call.ds.startX, 0).xCm = call.ds.roomStartX
          /\ svgPixelsToCm(0, call.ds.startY).yCm = call.ds.roomStartY)
           => ret.rect = InitialRect

\* ---------------------------------------------------------------------
\* An object snapped to a wall of its room
\* ---------------------------------------------------------------------

DraggedObject == FindSeq(history.present.placedObjects, LAMBDA p : p.id = "p1")[1]

DraggedVisual ==
    getVisualBounds(DraggedObject.xCm, DraggedObject.yCm, DragDef.widthCm,
                    DragDef.heightCm, DraggedObject.rotationDeg)

ObjectRoom == history.present.rooms[1]

\* The last pointer move of an object drag reported a snap of the X axis
\* whose guide is the left or the right edge of the room.
SnappedToWallX ==
    /\ last.ev = "pointermove"
    /\ currentSnapResult # Undefined
    /\ currentSnapResult[1].snappedX
    /\ currentSnapResult[1].xGuideCm
         \in {Some(ObjectRoom.xCm), Some(ObjectRoom.xCm + ObjectRoom.widthCm)}

SnappedToWallY ==
    /\ last.ev = "pointermove"
    /\ currentSnapResult # Undefined
    /\ currentSnapResult[1].snappedY
    /\ currentSnapResult[1].yGuideCm
         \in {Some(ObjectRoom.yCm), Some(ObjectRoom.yCm + ObjectRoom.heightCm)}

FlushX ==
    \/ Some(DraggedVisual.x) = currentSnapResult[1].xGuideCm
    \/ Some(DraggedVisual.x + DraggedVisual.w) = currentSnapResult[1].xGuideCm

FlushY ==
    \/ Some(DraggedVisual.y) = currentSnapResult[1].yGuideCm
    \/ Some(DraggedVisual.y + DraggedVisual.h) = currentSnapResult[1].yGuideCm

\* C38: when the object engine reports a snap against the left or right
\* (top or bottom) edge of the room during an object drag, the visual edge
\* of the placed object as committed lies on that edge, for the rotations
\* 0, 90, 180 and 270 and for rooms at x = 0 as well.
C38_SnappedObjectFlushWithWall ==
    /\ SnappedToWallX => FlushX
    /\ SnappedToWallY => FlushY

\* What holds: the committed object is flush with the wall whenever the
\* storage position that belongs to the snapped visual position is not
\* negative, so that the position mutator leaves it as it is.
SnappedObjectFlushUnlessClamped ==
    /\ SnappedToWallX =>
         LET st == visualToStorage(currentSnapResult[1].xCm, currentSnapResult[1].yCm,
                                   DragDef.widthCm, DragDef.heightCm,
                                   DraggedObject.rotationDeg)
         IN  (st.xCm >= 0 => FlushX) /\ (st.xCm < 0 => DraggedObject.xCm = 0)
    /\ SnappedToWallY => FlushY

\* ---------------------------------------------------------------------
\* A click is a checkpoint
\* ---------------------------------------------------------------------

\* The step is a pointer-up that follows directly a pointer-down which
\* started a session on a room body, a placed object or a resize handle.
ClickStep ==
    /\ last.ev = "pointerdown"
    /\ last'.ev = "pointerup"
    /\ dragState # Undefined
    /\ dragState[1].targetType \in {"room", "placed", "resize"}

\* C31: an unmodified pointer-down of the select tool on a room body, a
\* placed object or a resize handle, followed directly by the pointer-up,
\* adds exactly one entry to past, which equals the present, and empties
\* future.
C31_ClickIsCheckpoint ==
    [][ClickStep =>
         /\ history'.past = Append(history.past, history.present)
         /\ history'.present = history.present
         /\ history'.past[Len(history'.past)] = history'.present
         /\ history'.future = <<>>]_vars

ClickedAfterUndo(kind) ==
    /\ last.ev = "pointerup"
    /\ last.keys = 4
    /\ last.futureBefore > 0
    /\ last.released # Undefined
    /\ last.released[1].targetType = kind
    /\ history.future = <<>>
    /\ history.past # <<>>
    /\ history.past[Len(history.past)] = history.present

C31_Witness == ClickedAfterUndo("room")

C31_WitnessPlaced == ClickedAfterUndo("placed")

C31_WitnessResize == ClickedAfterUndo("resize")

\* ---------------------------------------------------------------------
\* Release events that arrive back to back
\* ---------------------------------------------------------------------

\* A pointer-up has committed a session and the next event is a
\* pointer-leave or a pointer-cancel.
SecondRelease ==
    /\ last.ev = "pointerup"
    /\ last.released # Undefined
    /\ last.released[1].roomId # "__pan__"
    /\ last'.ev \in {"pointerleave", "pointercancel"}

SecondReleaseCommitsUnlessRendered ==
    [][SecondRelease =>
         IF call.dragState # Undefined
         THEN /\ history'.past = Append(history.past, call.appState)
              /\ history'.present = call.appState
         ELSE history' = history]_vars

SecondReleaseSeen ==
    /\ last.ev \in {"pointerleave", "pointercancel"}
    /\ last.released # Undefined
    /\ last.released[1].roomId # "__pan__"
    /\ Len(history.past) = 2
    /\ history.past[1] = history.past[2]

\* ---------------------------------------------------------------------
\* A failing release of the pointer capture
\* ---------------------------------------------------------------------

\* C33: when releasePointerCapture throws on pointer-up, the drag state and
\* the snap result are cleared all the same, and the checkpoint of an
\* active drag (every session but the pan) is recorded.
C33_CaptureFailureKeepsCleanup ==
    [][last'.ev = "pointerup" /\ pc' = "threw" =>
         /\ dragState' = Undefined
         /\ currentSnapResult' = Undefined
         /\ history' =
              IF dragState # Undefined /\ dragState[1].roomId # "__pan__"
              THEN [past |-> Append(history.past, history.present),
                    present |-> history.present, future |-> <<>>]
              ELSE history]_vars

ThrewOnRelease(kind) ==
    /\ pc = "threw"
    /\ last.ev = "pointerup"
    /\ last.released # Undefined
    /\ last.released[1].targetType = kind
    /\ dragState = Undefined
    /\ currentSnapResult = Undefined
    /\ Len(history.past) = 1

\* The release of a room drag threw.
C33_Witness == ThrewOnRelease("room")

\* The release of an object drag threw after a pointer move, which had set
\* the snap result.
C33_WitnessAfterSlide == ThrewOnRelease("placed") /\ last.keys = 3

\* The release of a pan threw: cleared, nothing recorded.
C33_WitnessPan ==
    /\ pc = "threw"
    /\ last.ev = "pointerup"
    /\ last.released # Undefined
    /\ last.released[1].roomId = "__pan__"
    /\ dragState = Undefined
    /\ history.past = <<>>

\* ---------------------------------------------------------------------
\* Loading and importing reset the history
\* ---------------------------------------------------------------------

\* The document without its selection, which the migration rewrites.
WithoutSelection(state) == [state EXCEPT !.selectedRoomIds = <<>>]

\* C39: after the load on mount and after a successful import, past and
\* future are empty and present is the document read, with the migrated
\* selection, so that undo and redo change nothing.
C39_LoadResetsHistory ==
    [][last'.ev \in {"load", "imported"} =>
         LET doc == call.result.value[1]
         IN  /\ history'.past = <<>>
             /\ history'.future = <<>>
             /\ WithoutSelection(history'.present) = WithoutSelection(doc.fields)
             /\ history'.present.selectedRoomIds = migrateSelection(doc)
             /\ handleUndo(history') = history'
             /\ handleRedo(history') = history']_vars

\* A document was imported while the redo stack was not empty.
C39_Witness ==
    /\ last.ev = "imported"
    /\ last.futureBefore > 0
    /\ history.past = <<>>
    /\ history.future = <<>>

\* The document of the storage was loaded on mount.
C39_WitnessLoad ==
    /\ last.ev = "load"
    /\ history.past = <<>>
    /\ history.future = <<>>
    /\ history.present.rooms # <<>>

====
